---- MODULE Spec2Model ----
(***************************************************************************)
(* Verification model of the updown-15 trading bot.                        *)
(*                                                                         *)
(*   alpha_engine.py  AlphaMonitor: venue price feeds with reconnect       *)
(*                    backoff, the weighted consensus price, the broker    *)
(*                    (Kalshi) stream with its order-book store, and the   *)
(*                    fair-value model.                                    *)
(*   trader.py        TradingBot._simulate_fill: the order-book walk used  *)
(*                    for paper fills; TradingBot._cycle: the decision     *)
(*                    cycle with its exit rules, guards and orders; the    *)
(*                    REST retry loop, the paper ledger, the sizing of an  *)
(*                    entry and the fill chase.                            *)
(*                                                                         *)
(* Numbers.  Python floats are modelled by exact integer arithmetic:       *)
(* venue weights are in hundredths (0.35 -> 35), prices are whole dollars, *)
(* a quotient that the code leaves as a float is kept as an exact          *)
(* fraction <<numerator, denominator>>, probabilities are in per-mille.    *)
(*                                                                         *)
(* Specifications.  The monitor's tasks share no state except the running  *)
(* flag and the venue price map, so each specification runs one group of   *)
(* tasks and leaves the variables of the other groups at their initial     *)
(* values:                                                                 *)
(*   SpecPrice     get_weighted_global_price over drawn price maps         *)
(*   Spec          the six ccxt venue streams (HAS_CCXT = True)            *)
(*   SpecFallback  the two raw-websocket venue loops and the broker loop   *)
(*                 (the task set of start() when HAS_CCXT = False)         *)
(*   SpecDelta     the broker's order-book delta handler over drawn books  *)
(*                 and delta messages                                      *)
(*   SpecFill      _simulate_fill over drawn books and requests            *)
(*   SpecFair      get_fair_value over drawn monitor states                *)
(*   SpecLive      the venue streams with stop(), under weak fairness      *)
(*   SpecCycle     the decision cycles of the bot, paper and live, from    *)
(*                 the positions found at start-up                         *)
(*   SpecChasePrice  the three retry prices of the fill chase over drawn   *)
(*                 quotes                                                  *)
(*   SpecRequest   one _request call and the broker at the other end       *)
(*   SpecPaper     buys, closes and settlements on the paper ledger        *)
(*   SpecSize      the exposure guard and the sizing of an entry over      *)
(*                 drawn balances, exposures and prices                    *)
(*   SpecChase     one entry order and its fill chase, paper and live      *)
(*   SpecReset     the decision cycles with the paper reset of the         *)
(*                 dashboard and the settlement-price samples              *)
(***************************************************************************)
EXTENDS Integers, Sequences, FiniteSets, TLC

\* ------------------------------------------------------------------------
\* Exchange configuration (alpha_engine.py: EXCHANGE_CONFIG)
\* ------------------------------------------------------------------------

Venues == {"binance", "bybit", "coinbase", "okx", "kraken", "deribit"}

\* weight in hundredths, role as configured
EXCHANGE_CONFIG ==
  [ binance  |-> [weight |-> 35, role |-> "lead"],
    bybit    |-> [weight |-> 20, role |-> "lead"],
    coinbase |-> [weight |-> 18, role |-> "settlement"],
    okx      |-> [weight |-> 12, role |-> "lead"],
    kraken   |-> [weight |-> 8,  role |-> "settlement"],
    deribit  |-> [weight |-> 7,  role |-> "lead"] ]

LEAD_EXCHANGES == {k \in Venues : EXCHANGE_CONFIG[k].role = "lead"}

SETTLEMENT_EXCHANGES == {k \in Venues : EXCHANGE_CONFIG[k].role = "settlement"}

\* AlphaMonitor class constants, in seconds
RECONNECT_BASE_DELAY == 1

RECONNECT_MAX_DELAY == 30

\* AlphaMonitor.PRICE_HISTORY_WINDOW, in seconds
PRICE_HISTORY_WINDOW == 900

\* config.py defaults: PAPER_FILL_FRACTION 1.0 in percent, FAIR_VALUE_K 0.6
\* in tenths
ConfigDefaults == [PAPER_FILL_FRACTION |-> 100, FAIR_VALUE_K |-> 6]

\* ------------------------------------------------------------------------
\* Bounds of the model
\* ------------------------------------------------------------------------

\* prices a venue tick can carry (0 stands for a tick without a usable price)
PriceSet == {100, 110}

\* Spec: failures and ticks the environment delivers in one run
MaxFailures == 1

MaxTicks == 1

\* SpecFallback: failures the environment delivers in one run; seven
\* consecutive ones take the backoff past RECONNECT_MAX_DELAY
MaxRun == 7

\* order books: instruments, price levels in cents (yes side, no side),
\* resting quantities
Tickers == {"KXA", "KXB"}

Levels == {50, 60}

NoLevels == {40}

Qtys == {1, 2}

\* longest delta list the order-book properties are quantified over
MaxDeltaLen == 3

\* ------------------------------------------------------------------------
\* Arithmetic helpers
\* ------------------------------------------------------------------------

Min(a, b) == IF a <= b THEN a ELSE b

Max(a, b) == IF a >= b THEN a ELSE b

\* Python's sum(f(k) for k in S)
RECURSIVE SumOver(_, _)
SumOver(S, f) ==
  IF S = {} THEN 0
  ELSE LET k == CHOOSE x \in S : TRUE
       IN  f[k] + SumOver(S \ {k}, f)

\* the float 0.0 and a float quotient n/d, kept exact
Zero == <<0, 1>>

Quot(n, d) == <<n, d>>

RatEq(a, b) == a[1] * b[2] = b[1] * a[2]

\* ------------------------------------------------------------------------
\* State
\* ------------------------------------------------------------------------

VARIABLES
  prices,            \* AlphaMonitor.prices: venue -> last price (0 = none yet)
  exchange_connected,\* AlphaMonitor._exchange_connected
  weighted_price,    \* AlphaMonitor._weighted_price
  lead_lag_spread,   \* AlphaMonitor.lead_lag_spread
  running,           \* AlphaMonitor._running
  pc,                \* per feed task: where its coroutine is suspended
  delay,             \* per feed task: the local variable delay
  stop_pc,           \* "idle", or "gather" while stop() awaits the cancelled tasks
  kalshi_connected,  \* AlphaMonitor.kalshi_connected
  kalshi_ws,         \* AlphaMonitor._kalshi_ws ("None" or "ws")
  kalshi_subscribed_ob, \* AlphaMonitor._kalshi_subscribed_ob
  kalshi_orderbook,  \* AlphaMonitor.kalshi_orderbook: ticker -> [yes, no]
  kalshi_ob_ts,      \* AlphaMonitor._kalshi_ob_ts: ticker -> time of last apply
  now,               \* time.time(), in whole seconds
  contract_settlement_prices, \* AlphaMonitor._contract_settlement_prices: <<ts, price>>
  contract_start_ts, \* AlphaMonitor._contract_start_ts (0 = no contract window yet)
  config,            \* the tunables of config.py that the modelled code reads
  env,               \* what the environment may still deliver: [fails, ticks]
  failures,          \* history: per feed, failures since its last successful connect
  fresh,             \* history: per venue, a tick arrived since its last failure
  args,              \* arguments of the pure call under check
  ret,               \* its result: [set |-> FALSE] before the call
  paper_mode,        \* TradingBot.paper_mode
  positions,         \* ticker -> [position, avg]: _paper_positions, or the exchange portfolio
  free_rolled,       \* TradingBot._free_rolled
  took_profit,       \* TradingBot._took_profit
  edge_exit_ts,      \* TradingBot._edge_exit_ts: ticker -> time (NoTs = no entry)
  entry_ts,          \* TradingBot._entry_ts: ticker -> time (NoTs = no entry)
  last_paper_ticker, \* TradingBot._last_paper_ticker (0 = None)
  resting,           \* live mode: the buy order resting at the exchange, or NoOrder
  cycle,             \* history: what the last _cycle() observed and submitted
                     \* (exits: it got as far as the exit rules)
  hist,              \* history: per ticker, the exits that went through in its window
  paper_balance,     \* TradingBot._paper_balance, in cents
  paper_positions,   \* TradingBot._paper_positions with its stored fields (NoPaper = no key)
  request,           \* one call of TradingBot._request and what the broker saw of it
  entry,             \* one entry order and the _wait_and_retry that follows it
  broker,            \* the broker connection as subscribe_orderbook sees it, and history:
                     \* the order-book commands and snapshots of the current connection
  settlement,        \* the background settlement tasks, the broker's results, the credits
  loops              \* TradingBot.running and the run() tasks that start_bot created

feedVars == <<running, pc, delay, stop_pc, env, failures>>

venueVars == <<prices, exchange_connected, weighted_price, lead_lag_spread, fresh>>

kalshiVars == <<kalshi_connected, kalshi_ws, kalshi_subscribed_ob,
                kalshi_orderbook, kalshi_ob_ts, now>>

contractVars == <<contract_settlement_prices, contract_start_ts>>

callVars == <<args, ret>>

traderVars == <<paper_mode, positions, free_rolled, took_profit, edge_exit_ts,
                entry_ts, last_paper_ticker, resting, cycle, hist>>

paperVars == <<paper_balance, paper_positions>>

orderVars == <<request, entry>>

taskVars == <<broker, settlement, loops>>

vars == <<feedVars, venueVars, kalshiVars, contractVars, config, callVars, traderVars,
          paperVars, orderVars, taskVars>>

Feeds == Venues \cup {"kalshi"}

\* the construction-time values of AlphaMonitor.__init__
MonitorInit ==
  /\ prices = [v \in Venues |-> 0]
  /\ exchange_connected = [v \in Venues |-> FALSE]
  /\ weighted_price = Zero
  /\ lead_lag_spread = Zero
  /\ running = FALSE
  /\ pc = [f \in Feeds |-> "none"]
  /\ delay = [f \in Feeds |-> RECONNECT_BASE_DELAY]
  /\ stop_pc = "idle"
  /\ kalshi_connected = FALSE
  /\ kalshi_ws = "None"
  /\ kalshi_subscribed_ob = {}
  /\ kalshi_orderbook = <<>>
  /\ kalshi_ob_ts = <<>>
  /\ now = 0
  /\ contract_settlement_prices = <<>>
  /\ contract_start_ts = 0
  /\ failures = [f \in Feeds |-> 0]
  /\ fresh = [v \in Venues |-> FALSE]

\* contract windows in the order the exchange opens them (tickers, as indices)
MaxContracts == 2

Contracts == 1..MaxContracts

\* a missing key of _edge_exit_ts / _entry_ts
NoTs == -1

NoPosition == [position |-> 0, avg |-> Zero]

NoOrder == [ticker |-> 0, side |-> "none", count |-> 0, price |-> 0]

IdleCycle == [n |-> 0, ticker |-> 0, secs_left |-> 0, held |-> 0, exits |-> FALSE,
              eligible |-> {}, rolled |-> FALSE, fired |-> <<>>, sells |-> <<>>,
              buys |-> <<>>, edge |-> 0, last_action |-> ""]

NoExits == [free_rolls |-> 0, took_profit |-> FALSE, edge_exit |-> NoTs]

\* config.PAPER_STARTING_BALANCE (100.0 dollars), in cents
\* config.PAPER_STARTING_BALANCE in dollars; balances are kept in cents
PAPER_STARTING_BALANCE == 100

\* a ticker that is not a key of _paper_positions
NoPaper == [side |-> "none", quantity |-> 0, avg_price_cents |-> Zero,
            market_exposure_cents |-> Zero]

\* no _request call under way
IdleRequest == [pc |-> "idle", method |-> "none", http |-> "None", tries |-> <<>>,
                slept |-> <<>>, clients |-> 0, accepted |-> 0]

\* no entry under way
IdleEntry == [pc |-> "idle", side |-> "none", qty |-> 0, aggressive |-> FALSE,
              book |-> <<>>, orders |-> <<>>, attempt |-> 0, remaining |-> 0,
              open |-> 0, stray |-> 0, filled |-> 0, end |-> ""]

\* contract windows of the settlement runs (tickers, as indices)
MaxWindows == 3

Windows == 1..MaxWindows

\* no subscribe_orderbook call under way, no connection made yet
IdleBroker == [conn |-> 0, cmds |-> <<>>, snaps |-> {}, outlived |-> FALSE,
               call |-> [pc |-> "idle", ticker |-> "", conn |-> 0]]

\* no settlement task created, no result posted by the broker, nothing credited
NoSettlement == [tasks |-> <<>>, result |-> [t \in Windows |-> ""],
                 credits |-> [t \in Windows |-> 0]]

\* TradingBot.running = False and no run() task
NoLoops == [running |-> FALSE, tasks |-> <<>>]

\* the construction-time values of TradingBot.__init__, but for paper_mode and
\* the position in the first contract
BotRest(first) ==
  /\ broker = IdleBroker
  /\ settlement = NoSettlement
  /\ loops = NoLoops
  /\ request = IdleRequest
  /\ entry = IdleEntry
  /\ positions = [t \in Contracts |-> IF t = 1 THEN first ELSE NoPosition]
  /\ free_rolled = {}
  /\ took_profit = {}
  /\ edge_exit_ts = [t \in Contracts |-> NoTs]
  /\ entry_ts = [t \in Contracts |-> NoTs]
  /\ last_paper_ticker = IF paper_mode /\ first # NoPosition THEN 1 ELSE 0
  /\ resting = NoOrder
  /\ cycle = IdleCycle
  /\ hist = [t \in Contracts |-> NoExits]

\* _paper_balance and _paper_positions of __init__, or the balance that
\* _restore_paper_state read back
PaperFields(balance) ==
  /\ paper_balance = balance
  /\ paper_positions = [t \in Contracts |-> NoPaper]

BotFields(first) ==
  /\ PaperFields(PAPER_STARTING_BALANCE * 100)
  /\ BotRest(first)

\* TradingBot.__init__ under the default KALSHI_ENV = "demo"
BotInit == paper_mode = TRUE /\ BotFields(NoPosition)

\* ------------------------------------------------------------------------
\* Weighted consensus price (alpha_engine.py: get_weighted_global_price)
\* ------------------------------------------------------------------------

\* valid = {k: v for k, v in self.prices.items() if v > 0}
ValidAllVenues(pr) == Venues

Valid(pr) == {k \in Venues : pr[k] > 0}

get_weighted_global_price(pr) ==
  LET valid        == Valid(pr)
      total_weight == SumOver(valid, [k \in Venues |-> EXCHANGE_CONFIG[k].weight])
  IN  IF valid = {} THEN Zero
      ELSE IF total_weight <= 0 THEN Zero
      ELSE Quot(SumOver(valid, [k \in Venues |-> pr[k] * EXCHANGE_CONFIG[k].weight]),
                total_weight)

\* ------------------------------------------------------------------------
\* SpecPrice: the getter applied to every price map over PriceSet
\* ------------------------------------------------------------------------

InitPrice ==
  /\ \E pr \in [Venues -> {0} \cup PriceSet] :
        /\ prices = pr
        /\ exchange_connected = [v \in Venues |-> FALSE]
        /\ weighted_price = Zero
        /\ lead_lag_spread = Zero
        /\ fresh = [v \in Venues |-> pr[v] > 0]
  /\ running = FALSE
  /\ pc = [f \in Feeds |-> "none"]
  /\ delay = [f \in Feeds |-> RECONNECT_BASE_DELAY]
  /\ stop_pc = "idle"
  /\ env = [fails |-> 0, ticks |-> 0]
  /\ failures = [f \in Feeds |-> 0]
  /\ kalshi_connected = FALSE
  /\ kalshi_ws = "None"
  /\ kalshi_subscribed_ob = {}
  /\ kalshi_orderbook = <<>>
  /\ kalshi_ob_ts = <<>>
  /\ now = 0
  /\ contract_settlement_prices = <<>>
  /\ contract_start_ts = 0
  /\ config = ConfigDefaults
  /\ args = [op |-> "get_weighted_global_price"]
  /\ ret = [set |-> FALSE]
  /\ BotInit

CallGetWeightedGlobalPrice ==
  /\ args.op = "get_weighted_global_price"
  /\ ~ret.set
  /\ ret' = [set |-> TRUE, val |-> get_weighted_global_price(prices)]
  /\ UNCHANGED <<feedVars, venueVars, kalshiVars, contractVars, config, traderVars, paperVars, orderVars, taskVars, args>>

NextPrice == CallGetWeightedGlobalPrice

SpecPrice == InitPrice /\ [][NextPrice]_vars

\* C1: get_weighted_global_price returns sum(price*weight)/sum(weight) over
\* exactly the venues whose last price is positive, and 0 when there is none.
\* The expected value is written out venue by venue, independently of the
\* code's dictionary filtering.
LiveWeight(v) == IF prices[v] > 0 THEN EXCHANGE_CONFIG[v].weight ELSE 0

ExpectedWeightSum ==
  LiveWeight("binance") + LiveWeight("bybit") + LiveWeight("coinbase")
    + LiveWeight("okx") + LiveWeight("kraken") + LiveWeight("deribit")

ExpectedPriceSum ==
  prices["binance"] * LiveWeight("binance") + prices["bybit"] * LiveWeight("bybit")
    + prices["coinbase"] * LiveWeight("coinbase") + prices["okx"] * LiveWeight("okx")
    + prices["kraken"] * LiveWeight("kraken") + prices["deribit"] * LiveWeight("deribit")

C1_WeightedMean ==
  (args.op = "get_weighted_global_price" /\ ret.set) =>
     IF \A v \in Venues : prices[v] <= 0
     THEN ret.val = Zero
     ELSE /\ ExpectedWeightSum > 0
          /\ RatEq(ret.val, <<ExpectedPriceSum, ExpectedWeightSum>>)

\* weight 0.12 (okx) at 100 and weight 0.08 (kraken) at 110, a 0.6 : 0.4
\* split of the live weight, give 104
C1_Witness ==
  /\ args.op = "get_weighted_global_price"
  /\ ret.set
  /\ prices = [v \in Venues |-> IF v = "okx" THEN 100
                                ELSE IF v = "kraken" THEN 110 ELSE 0]
  /\ RatEq(ret.val, <<104, 1>>)

\* ------------------------------------------------------------------------
\* Lead / settlement spread (alpha_engine.py: get_lead_vs_settlement)
\* ------------------------------------------------------------------------

RatSub(a, b) == <<a[1] * b[2] - b[1] * a[2], a[2] * b[2]>>

\* returns <<lead_price, settle_price, spread>>
get_lead_vs_settlement(pr) ==
  LET lead_valid   == {k \in LEAD_EXCHANGES : pr[k] > 0}
      settle_valid == {k \in SETTLEMENT_EXCHANGES : pr[k] > 0}
      w            == [k \in Venues |-> EXCHANGE_CONFIG[k].weight]
      pw           == [k \in Venues |-> pr[k] * EXCHANGE_CONFIG[k].weight]
      lead_price   == Quot(SumOver(lead_valid, pw), SumOver(lead_valid, w))
      settle_price == Quot(SumOver(settle_valid, pw), SumOver(settle_valid, w))
  IN  IF lead_valid = {} \/ settle_valid = {} THEN <<Zero, Zero, Zero>>
      ELSE <<lead_price, settle_price, RatSub(lead_price, settle_price)>>

\* ------------------------------------------------------------------------
\* Feed tasks (alpha_engine.py: start, stop, _stream_exchange,
\* _binance_loop_fallback, _coinbase_loop_fallback, _kalshi_loop)
\*
\* A task is suspended at one of its awaits:
\*   "connecting"   load_markets() / websockets.connect()
\*   "subscribing"  the broker loop's ws.send(subscribe) after connecting
\*   "streaming"    watch_ticker() / async for raw_msg in ws
\*   "sleeping"     asyncio.sleep(delay + jitter) in the except branch
\*   "done"         the coroutine has returned or was cancelled
\* stop() clears _running and cancels the tasks in one synchronous stretch,
\* so a task resumes normally only while running holds.
\* ------------------------------------------------------------------------

\* feeds read with "async for raw_msg in ws", which ends without an
\* exception when the remote side closes the stream cleanly
WsFeeds == {"binance", "coinbase", "kalshi"}

\* start(): create the tasks (the task set depends on HAS_CCXT)
Start(tasks) ==
  /\ ~running
  /\ stop_pc = "idle"
  /\ running' = TRUE
  /\ pc' = [f \in Feeds |-> IF f \in tasks THEN "connecting" ELSE "none"]
  /\ delay' = [f \in Feeds |-> IF f \in tasks THEN RECONNECT_BASE_DELAY ELSE delay[f]]
  /\ failures' = [f \in Feeds |-> 0]
  /\ UNCHANGED <<stop_pc, env, venueVars, kalshiVars, contractVars, config, traderVars, paperVars, orderVars, taskVars, callVars>>

\* delay = min(delay * 2, self.RECONNECT_MAX_DELAY)
NextDelayUncapped(d) == d * 2

NextDelay(d) == Min(d * 2, RECONNECT_MAX_DELAY)

\* delay = self.RECONNECT_BASE_DELAY after a successful connect
ConnectedDelayKept(d) == d

ConnectedDelay(d) == RECONNECT_BASE_DELAY

\* a venue connects: _exchange_connected[ex] = True; delay = base
VenueConnect(f) ==
  /\ f \in Venues
  /\ running
  /\ pc[f] = "connecting"
  /\ exchange_connected' = [exchange_connected EXCEPT ![f] = TRUE]
  /\ delay' = [delay EXCEPT ![f] = ConnectedDelay(delay[f])]
  /\ pc' = [pc EXCEPT ![f] = "streaming"]
  /\ failures' = [failures EXCEPT ![f] = 0]
  /\ UNCHANGED <<running, stop_pc, env, prices, weighted_price, lead_lag_spread,
                 fresh, kalshiVars, contractVars, config, traderVars, paperVars, orderVars, taskVars, callVars>>

\* _record_contract_settlement: append (now, price), keep the last
\* PRICE_HISTORY_WINDOW seconds
record_contract_settlement(csp, t, price) ==
  SelectSeq(Append(csp, <<t, price>>), LAMBDA e : e[1] >= t - PRICE_HISTORY_WINDOW)

\* a ticker arrives: if price and float(price) > 0, store it, record it for
\* the contract window when the venue is a settlement venue, and recompute
\* the consensus price and the lead/settlement spread
VenueTick(f, p) ==
  /\ f \in Venues
  /\ running
  /\ pc[f] = "streaming"
  /\ env.ticks > 0
  /\ env' = [env EXCEPT !.ticks = @ - 1]
  /\ IF p > 0
     THEN LET np == [prices EXCEPT ![f] = p]
          IN  /\ prices' = np
              /\ weighted_price' = get_weighted_global_price(np)
              /\ lead_lag_spread' = get_lead_vs_settlement(np)[3]
              /\ fresh' = [fresh EXCEPT ![f] = TRUE]
              /\ contract_settlement_prices' =
                    IF f \in SETTLEMENT_EXCHANGES
                    THEN record_contract_settlement(contract_settlement_prices, now, p)
                    ELSE contract_settlement_prices
     ELSE UNCHANGED <<prices, weighted_price, lead_lag_spread, fresh,
                      contract_settlement_prices>>
  /\ UNCHANGED <<running, pc, delay, stop_pc, failures, exchange_connected,
                 kalshiVars, contract_start_ts, config, traderVars, paperVars, orderVars, taskVars, callVars>>

\* self._exchange_connected[exchange_id] = False
MarkAllDisconnected(connected, f) == [v \in DOMAIN connected |-> FALSE]

MarkDisconnected(connected, f) == [connected EXCEPT ![f] = FALSE]

\* except Exception: the connect or the stream read raised; mark the venue
\* disconnected and sleep delay (+ jitter)
VenueFail(f) ==
  /\ f \in Venues
  /\ running
  /\ pc[f] \in {"connecting", "streaming"}
  /\ env.fails > 0
  /\ env' = [env EXCEPT !.fails = @ - 1]
  /\ exchange_connected' = MarkDisconnected(exchange_connected, f)
  /\ pc' = [pc EXCEPT ![f] = "sleeping"]
  /\ failures' = [failures EXCEPT ![f] = @ + 1]
  /\ fresh' = [fresh EXCEPT ![f] = FALSE]
  /\ UNCHANGED <<running, delay, stop_pc, prices, weighted_price, lead_lag_spread,
                 kalshiVars, contractVars, config, traderVars, paperVars, orderVars, taskVars, callVars>>

\* where a loop goes after its n-th consecutive failure has been slept off:
\* back to "while self._running", whatever n is
AfterSleepGivesUp(n) == IF n >= 2 THEN "done" ELSE "connecting"

AfterSleep(n) == "connecting"

\* the backoff sleep is over: double the delay and go round the loop
SleepDone(f) ==
  /\ running
  /\ pc[f] = "sleeping"
  /\ delay' = [delay EXCEPT ![f] = NextDelay(delay[f])]
  /\ pc' = [pc EXCEPT ![f] = AfterSleep(failures[f])]
  /\ UNCHANGED <<running, stop_pc, env, failures, venueVars, kalshiVars, contractVars, config, traderVars, paperVars, orderVars, taskVars, callVars>>

\* the remote side closes a raw websocket cleanly: the async for ends, the
\* async with exits, no except branch runs, and the while loop reconnects
CleanClose(f) ==
  /\ f \in WsFeeds
  /\ running
  /\ pc[f] = "streaming"
  /\ pc' = [pc EXCEPT ![f] = "connecting"]
  /\ UNCHANGED <<running, delay, stop_pc, env, failures, venueVars, kalshiVars,
                 contractVars, config, traderVars, paperVars, orderVars, taskVars, callVars>>

\* stop(): _running = False; task.cancel() for every task; await gather
Stop ==
  /\ running
  /\ running' = FALSE
  /\ stop_pc' = "gather"
  /\ UNCHANGED <<pc, delay, env, failures, venueVars, kalshiVars, contractVars, config, traderVars, paperVars, orderVars, taskVars, callVars>>

\* where a task is after task.cancel() reached it at await p: CancelledError
\* is raised at every await and nothing in the loops swallows it
AfterCancelSleepsOn(p) == IF p = "sleeping" THEN "sleeping" ELSE "done"

AfterCancel(p) == "done"

\* a cancelled task resumes with CancelledError.  At the connect or the
\* stream read the except CancelledError branch breaks out of the loop and
\* the trailing statement marks the feed disconnected; inside the backoff
\* sleep the error leaves the except Exception handler and the coroutine
\* (the feed was marked disconnected when the handler was entered).
TaskCancelled(f) ==
  /\ stop_pc = "gather"
  /\ pc[f] \in {"connecting", "subscribing", "streaming", "sleeping"}
  /\ pc' = [pc EXCEPT ![f] = AfterCancel(pc[f])]
  /\ IF f \in Venues /\ pc[f] # "sleeping"
     THEN exchange_connected' = [exchange_connected EXCEPT ![f] = FALSE]
     ELSE UNCHANGED exchange_connected
  /\ IF f = "kalshi" /\ pc[f] # "sleeping"
     THEN kalshi_connected' = FALSE /\ kalshi_ws' = "None"
     ELSE UNCHANGED <<kalshi_connected, kalshi_ws>>
  /\ UNCHANGED <<running, delay, stop_pc, env, failures, prices, weighted_price,
                 lead_lag_spread, fresh, kalshi_subscribed_ob, kalshi_orderbook,
                 kalshi_ob_ts, now, contractVars, config, traderVars, paperVars, orderVars, taskVars, callVars>>

\* gather has returned: _tasks = []; every venue and the broker are marked
\* disconnected
StopReturn ==
  /\ stop_pc = "gather"
  /\ \A f \in Feeds : pc[f] \in {"none", "done"}
  /\ stop_pc' = "idle"
  /\ pc' = [f \in Feeds |-> "none"]
  /\ exchange_connected' = [v \in Venues |-> FALSE]
  /\ kalshi_connected' = FALSE
  /\ kalshi_ws' = "None"
  /\ UNCHANGED <<running, delay, env, failures, prices, weighted_price,
                 lead_lag_spread, fresh, kalshi_subscribed_ob, kalshi_orderbook,
                 kalshi_ob_ts, now, contractVars, config, traderVars, paperVars, orderVars, taskVars, callVars>>

\* ------------------------------------------------------------------------
\* Spec: the six venue streams of the ccxt build
\* ------------------------------------------------------------------------

Init ==
  /\ MonitorInit
  /\ env = [fails |-> MaxFailures, ticks |-> MaxTicks]
  /\ config = ConfigDefaults
  /\ args = [op |-> "none"]
  /\ ret = [set |-> FALSE]
  /\ BotInit

Next ==
  \/ Start(Venues)
  \/ \E f \in Venues : VenueConnect(f)
  \/ \E f \in Venues, p \in {0} \cup PriceSet : VenueTick(f, p)
  \/ \E f \in Venues : VenueFail(f)
  \/ \E f \in Venues : SleepDone(f)
  \/ Stop
  \/ \E f \in Venues : TaskCancelled(f)
  \/ StopReturn

Spec == Init /\ [][Next]_vars

\* ------------------------------------------------------------------------
\* Broker stream (alpha_engine.py: _kalshi_loop, subscribe_orderbook)
\* ------------------------------------------------------------------------

\* a dict as Python keeps it: a sequence of <<key, value>> with distinct
\* keys, in insertion order
DictKeys(d) == {d[i][1] : i \in 1..Len(d)}

\* d[p] = q
DictSet(d, p, q) ==
  IF p \in DictKeys(d)
  THEN [i \in 1..Len(d) |-> IF d[i][1] = p THEN <<p, q>> ELSE d[i]]
  ELSE Append(d, <<p, q>>)

\* d.pop(p, None)
DictPopKeeps(d, p) == d

DictPop(d, p) == SelectSeq(d, LAMBDA e : e[1] # p)

\* {p: q for p, q in book}
RECURSIVE DictOf(_)
DictOf(book) ==
  IF book = <<>> THEN <<>>
  ELSE LET n == Len(book)
       IN  DictSet(DictOf(SubSeq(book, 1, n - 1)), book[n][1], book[n][2])

\* for p, q in deltas: pop the level when q == 0, else set it
RECURSIVE ApplyDeltas(_, _)
ApplyDeltas(book_dict, deltas) ==
  IF deltas = <<>> THEN book_dict
  ELSE LET p == Head(deltas)[1]
           q == Head(deltas)[2]
       IN  ApplyDeltas(IF q = 0 THEN DictPop(book_dict, p) ELSE DictSet(book_dict, p, q),
                       Tail(deltas))

\* one side of an orderbook_delta: untouched when the message has no
\* entries for the side, else the dict's items after the entries
DeltaSide(book, deltas) ==
  IF deltas = <<>> THEN book ELSE ApplyDeltas(DictOf(book), deltas)

\* the guard of the orderbook_delta branch
DeltaAcceptedAlways(ob, ticker) == ticker # ""

DeltaAccepted(ob, ticker) == ticker # "" /\ ticker \in DOMAIN ob

\* a map with one entry replaced or added
Put(f, k, v) == [x \in DOMAIN f \cup {k} |-> IF x = k THEN v ELSE f[x]]

\* the book of a ticker as the delta branch reads it; .get(side, [])
BookOf(ob, ticker) ==
  IF ticker \in DOMAIN ob THEN ob[ticker] ELSE [yes |-> <<>>, no |-> <<>>]

\* the message dispatch: <<kalshi_orderbook, _kalshi_ob_ts>> after msg.
\* ticker and fill messages touch neither.
HandleMessage(ob, ts, msg, t) ==
  IF msg.type = "orderbook_snapshot"
  THEN IF msg.ticker # ""
       THEN <<Put(ob, msg.ticker, [yes |-> msg.yes, no |-> msg.no]),
              Put(ts, msg.ticker, t)>>
       ELSE <<ob, ts>>
  ELSE IF msg.type = "orderbook_delta"
  THEN IF DeltaAccepted(ob, msg.ticker)
       THEN LET b == BookOf(ob, msg.ticker)
            IN  <<Put(ob, msg.ticker, [yes |-> DeltaSide(b.yes, msg.yes),
                                       no  |-> DeltaSide(b.no, msg.no)]),
                  Put(ts, msg.ticker, t)>>
       ELSE <<ob, ts>>
  ELSE <<ob, ts>>

\* the set of subscribed order books after a connect
SubscribedKept(subscribed) == subscribed

\* self._kalshi_subscribed_ob = set()
SubscribedOnConnect(subscribed) == {}

\* the broker connects at time t: _kalshi_ws = ws; kalshi_connected = True;
\* _kalshi_subscribed_ob = set(); delay = base; then the subscribe is sent
KalshiConnected(t) ==
  /\ running
  /\ pc["kalshi"] = "connecting"
  /\ kalshi_ws' = "ws"
  /\ kalshi_connected' = TRUE
  /\ kalshi_subscribed_ob' = SubscribedOnConnect(kalshi_subscribed_ob)
  /\ delay' = [delay EXCEPT !["kalshi"] = ConnectedDelay(delay["kalshi"])]
  /\ pc' = [pc EXCEPT !["kalshi"] = "subscribing"]
  /\ failures' = [failures EXCEPT !["kalshi"] = 0]
  /\ now' = t
  /\ UNCHANGED <<running, stop_pc, env, venueVars, kalshi_orderbook, kalshi_ob_ts,
                 contractVars, config, traderVars, paperVars, orderVars, callVars>>

KalshiConnect == KalshiConnected(now) /\ UNCHANGED taskVars

\* ws.send(subscribe ticker + fill) went through
KalshiSubscribed ==
  /\ running
  /\ pc["kalshi"] = "subscribing"
  /\ pc' = [pc EXCEPT !["kalshi"] = "streaming"]
  /\ UNCHANGED <<running, delay, stop_pc, env, failures, venueVars, kalshiVars,
                 contractVars, config, traderVars, paperVars, orderVars, taskVars, callVars>>

\* except Exception: signing, connect, send or the stream read raised
KalshiFail ==
  /\ running
  /\ pc["kalshi"] \in {"connecting", "subscribing", "streaming"}
  /\ env.fails > 0
  /\ env' = [env EXCEPT !.fails = @ - 1]
  /\ kalshi_connected' = FALSE
  /\ kalshi_ws' = "None"
  /\ pc' = [pc EXCEPT !["kalshi"] = "sleeping"]
  /\ failures' = [failures EXCEPT !["kalshi"] = @ + 1]
  /\ UNCHANGED <<running, delay, stop_pc, venueVars, kalshi_subscribed_ob,
                 kalshi_orderbook, kalshi_ob_ts, now, contractVars, config, traderVars, paperVars, orderVars, taskVars, callVars>>

\* one message of the stream is dispatched
KalshiDispatch(msg) ==
  /\ running
  /\ pc["kalshi"] = "streaming"
  /\ LET r == HandleMessage(kalshi_orderbook, kalshi_ob_ts, msg, now)
     IN  /\ kalshi_orderbook' = r[1]
         /\ kalshi_ob_ts' = r[2]
  /\ UNCHANGED <<feedVars, venueVars, kalshi_connected, kalshi_ws,
                 kalshi_subscribed_ob, now>>

KalshiMessage(msg) == KalshiDispatch(msg) /\ UNCHANGED <<contractVars, config, traderVars, paperVars, orderVars, taskVars, callVars>>

\* ------------------------------------------------------------------------
\* SpecFallback: the build without ccxt: two venue loops and the broker loop
\* ------------------------------------------------------------------------

FallbackTasks == {"binance", "coinbase", "kalshi"}

\* the broker messages of this specification
FeedMsgs ==
  { [type |-> "orderbook_snapshot", ticker |-> "KXA", yes |-> << <<50, 1>> >>, no |-> <<>>],
    [type |-> "orderbook_delta", ticker |-> "KXA", yes |-> << <<50, 0>> >>, no |-> <<>>],
    [type |-> "orderbook_delta", ticker |-> "KXB", yes |-> <<>>, no |-> << <<40, 1>> >>],
    [type |-> "ticker", ticker |-> "KXA", yes |-> <<>>, no |-> <<>>] }

InitFallback ==
  /\ MonitorInit
  /\ env = [fails |-> MaxRun, ticks |-> MaxTicks]
  /\ config = ConfigDefaults
  /\ args = [op |-> "none"]
  /\ ret = [set |-> FALSE]
  /\ BotInit

NextFallback ==
  \/ Start(FallbackTasks)
  \/ \E f \in {"binance", "coinbase"} : VenueConnect(f)
  \/ \E f \in {"binance", "coinbase"}, p \in {0} \cup PriceSet : VenueTick(f, p)
  \/ \E f \in {"binance", "coinbase"} : VenueFail(f)
  \/ KalshiConnect
  \/ KalshiSubscribed
  \/ KalshiFail
  \/ \E m \in FeedMsgs : KalshiMessage(m)
  \/ \E f \in FallbackTasks : SleepDone(f)
  \/ \E f \in FallbackTasks : CleanClose(f)
  \/ Stop
  \/ \E f \in FallbackTasks : TaskCancelled(f)
  \/ StopReturn

SpecFallback == InitFallback /\ [][NextFallback]_vars

\* ------------------------------------------------------------------------
\* Properties of the feeds
\* ------------------------------------------------------------------------

\* the consensus price over the venues that delivered a tick since their
\* last failure, written out venue by venue
FreshWeight(v) == IF prices[v] > 0 /\ fresh[v] THEN EXCHANGE_CONFIG[v].weight ELSE 0

FreshWeightSum ==
  FreshWeight("binance") + FreshWeight("bybit") + FreshWeight("coinbase")
    + FreshWeight("okx") + FreshWeight("kraken") + FreshWeight("deribit")

FreshPriceSum ==
  prices["binance"] * FreshWeight("binance") + prices["bybit"] * FreshWeight("bybit")
    + prices["coinbase"] * FreshWeight("coinbase") + prices["okx"] * FreshWeight("okx")
    + prices["kraken"] * FreshWeight("kraken") + prices["deribit"] * FreshWeight("deribit")

\* C2: the consensus price is normalized over live venues only: the last
\* price of a venue whose connection failed does not contribute to
\* get_weighted_global_price until the venue has delivered a new tick.
C2_StalePriceExcluded ==
  IF FreshWeightSum = 0
  THEN get_weighted_global_price(prices) = Zero
  ELSE RatEq(get_weighted_global_price(prices), <<FreshPriceSum, FreshWeightSum>>)

RECURSIVE Pow2(_)
Pow2(n) == IF n <= 0 THEN 1 ELSE 2 * Pow2(n - 1)

\* C9 as stated: the pre-jitter sleep after the N-th consecutive failure is
\* min(base * 2^N, max_delay).
C9_SleepAfterNthFailure ==
  \A f \in Feeds :
    pc[f] = "sleeping" =>
      delay[f] = Min(RECONNECT_BASE_DELAY * Pow2(failures[f]), RECONNECT_MAX_DELAY)

\* C9 amended: the pre-jitter sleep after the N-th consecutive failure
\* (N = 1 for the first failure since the last successful connect) is
\* min(base * 2^(N-1), max_delay); within a feed loop the delay decreases
\* only in the step of a successful connect, which sets it to base.
C9_SleepIsCappedDoubling ==
  \A f \in Feeds :
    pc[f] = "sleeping" =>
      /\ failures[f] >= 1
      /\ delay[f] = Min(RECONNECT_BASE_DELAY * Pow2(failures[f] - 1), RECONNECT_MAX_DELAY)

C9_DelayDropsOnlyOnConnect ==
  \A f \in Feeds :
    (pc[f] \notin {"none", "done"} /\ delay'[f] < delay[f]) =>
      /\ pc[f] = "connecting"
      /\ pc'[f] \in {"streaming", "subscribing"}
      /\ delay'[f] = RECONNECT_BASE_DELAY

C9_Backoff == [](C9_SleepIsCappedDoubling) /\ [][C9_DelayDropsOnlyOnConnect]_vars

\* the seventh failure in a row sleeps the maximum, not 2^6 seconds
C9_Witness ==
  \E f \in Feeds :
    /\ pc[f] = "sleeping"
    /\ failures[f] = 7
    /\ delay[f] = RECONNECT_MAX_DELAY

FeedConnected(f) == IF f = "kalshi" THEN kalshi_connected ELSE exchange_connected[f]

\* C10: whenever a feed's stream ends while the monitor is running, by an
\* error or by a clean close, the feed is marked disconnected and a backoff
\* sleep precedes the next connection attempt.
C10_StreamEndBacksOff ==
  [][\A f \in Feeds :
       (running /\ pc[f] = "streaming" /\ pc'[f] # "streaming") =>
          (pc'[f] = "sleeping" /\ ~FeedConnected(f)')]_vars

\* ------------------------------------------------------------------------
\* SpecDelta: one orderbook_delta message handled twice in a row by the
\* connected broker loop.  KXA has a stored book, KXB has none.
\* ------------------------------------------------------------------------

SeqsUpTo(S, n) == UNION {[1..k -> S] : k \in 0..n}

\* one side of a stored book: distinct price levels with a resting quantity
SnapSides(L) ==
  {b \in SeqsUpTo(L \X Qtys, Cardinality(L)) :
     \A i, j \in 1..Len(b) : i # j => b[i][1] # b[j][1]}

\* delta lists of at most n entries; quantity 0 deletes
DeltaLists(L, n) == SeqsUpTo(L \X ({0} \cup Qtys), n)

DeltaMsgs ==
  [type : {"orderbook_delta"}, ticker : {"KXA"},
   yes : DeltaLists(Levels, MaxDeltaLen), no : DeltaLists(NoLevels, 1)]
    \cup
  [type : {"orderbook_delta"}, ticker : {"KXB", ""},
   yes : DeltaLists(Levels, 1), no : DeltaLists(NoLevels, 1)]

InitDelta ==
  /\ prices = [v \in Venues |-> 0]
  /\ exchange_connected = [v \in Venues |-> FALSE]
  /\ weighted_price = Zero
  /\ lead_lag_spread = Zero
  /\ fresh = [v \in Venues |-> FALSE]
  /\ running = TRUE
  /\ pc = [f \in Feeds |-> IF f = "kalshi" THEN "streaming" ELSE "none"]
  /\ delay = [f \in Feeds |-> RECONNECT_BASE_DELAY]
  /\ stop_pc = "idle"
  /\ env = [fails |-> 0, ticks |-> 0]
  /\ failures = [f \in Feeds |-> 0]
  /\ kalshi_connected = TRUE
  /\ kalshi_ws = "ws"
  /\ kalshi_subscribed_ob = {"KXA"}
  /\ \E y \in SnapSides(Levels), n \in SnapSides(NoLevels) :
        kalshi_orderbook = [t \in {"KXA"} |-> [yes |-> y, no |-> n]]
  /\ kalshi_ob_ts = [t \in {"KXA"} |-> 0]
  /\ now = 1
  /\ contract_settlement_prices = <<>>
  /\ contract_start_ts = 0
  /\ config = ConfigDefaults
  /\ \E m \in DeltaMsgs :
        args = [op |-> "orderbook_delta", msg |-> m, applied |-> 0,
                before |-> kalshi_orderbook, before_ts |-> kalshi_ob_ts]
  /\ ret = [set |-> FALSE]
  /\ BotInit

\* the message arrives, and arrives again; ret keeps the book after the
\* first time
SameDeltaAgain ==
  /\ args.applied < 2
  /\ KalshiDispatch(args.msg)
  /\ args' = [args EXCEPT !.applied = @ + 1]
  /\ ret' = IF args.applied = 0 THEN [set |-> TRUE, val |-> kalshi_orderbook'] ELSE ret
  /\ UNCHANGED <<contractVars, config, traderVars, paperVars, orderVars, taskVars>>

NextDelta == SameDeltaAgain

SpecDelta == InitDelta /\ [][NextDelta]_vars

\* the levels of one book side as a set of <<price, quantity>>
LevelSet(side) == {<<side[i][1], side[i][2]>> : i \in 1..Len(side)}

PricesOf(side) == {side[i][1] : i \in 1..Len(side)}

QtyAt(side, p) == (CHOOSE e \in LevelSet(side) : e[1] = p)[2]

\* the prices a delta list names, and the quantity of the last entry that
\* names price p
Named(deltas) == {deltas[i][1] : i \in 1..Len(deltas)}

LastEntry(deltas, p) ==
  deltas[CHOOSE i \in 1..Len(deltas) :
           /\ deltas[i][1] = p
           /\ \A j \in (i+1)..Len(deltas) : deltas[j][1] # p][2]

\* what a delta must leave of one side: a named price is gone when its
\* (last) entry has quantity 0 and rests with the entry's quantity
\* otherwise; a price not named is as before; no price is listed twice
SideAsSpecified(before, after, deltas) ==
  /\ \A p \in Named(deltas) :
       IF LastEntry(deltas, p) = 0
       THEN p \notin PricesOf(after)
       ELSE p \in PricesOf(after) /\ QtyAt(after, p) = LastEntry(deltas, p)
  /\ \A p \in (PricesOf(before) \cup PricesOf(after)) \ Named(deltas) :
       /\ p \in PricesOf(before)
       /\ p \in PricesOf(after)
       /\ QtyAt(after, p) = QtyAt(before, p)
  /\ Cardinality(PricesOf(after)) = Len(after)

DeltaForStoredBook == args.op = "orderbook_delta" /\ args.msg.ticker = "KXA"

BookAsSpecified ==
  /\ SideAsSpecified(args.before["KXA"].yes, kalshi_orderbook["KXA"].yes, args.msg.yes)
  /\ SideAsSpecified(args.before["KXA"].no, kalshi_orderbook["KXA"].no, args.msg.no)

\* C3 as stated: the same delta applied twice in a row leaves the book
\* identical to applying it once; an entry with quantity 0 leaves the book
\* without that level whether or not it existed; levels not named in the
\* delta are unchanged.
C3_DeltaTwiceIdentical ==
  DeltaForStoredBook =>
     /\ args.applied >= 1 => BookAsSpecified
     /\ args.applied = 2 => kalshi_orderbook = ret.val

\* C3 amended: the same delta applied twice in a row leaves the same price
\* levels with the same quantities as applying it once (the order of the
\* stored level list can differ when the delta names a price more than
\* once); a price whose last entry in the delta has quantity 0 is absent
\* afterwards whether or not it existed, and levels not named in the delta
\* are unchanged.
C3_DeltaIdempotentLevels ==
  DeltaForStoredBook =>
     /\ args.applied >= 1 => BookAsSpecified
     /\ args.applied = 2 =>
          /\ LevelSet(kalshi_orderbook["KXA"].yes) = LevelSet(ret.val["KXA"].yes)
          /\ LevelSet(kalshi_orderbook["KXA"].no) = LevelSet(ret.val["KXA"].no)
          /\ DOMAIN kalshi_orderbook = DOMAIN ret.val

\* the delta deletes level 50, which rests in the book, and level 60, which
\* does not, replaces nothing else, and has been applied twice
C3_Witness ==
  /\ DeltaForStoredBook
  /\ args.applied = 2
  /\ args.before["KXA"].yes = << <<50, 1>> >>
  /\ args.msg.yes = << <<50, 0>>, <<60, 0>> >>
  /\ kalshi_orderbook["KXA"].yes = <<>>

\* C4: an orderbook_delta for an instrument that has no stored snapshot is
\* dropped: it creates no book entry for the instrument and leaves every
\* stored book and every last-updated timestamp unchanged.
C4_DeltaWithoutSnapshotDropped ==
  (/\ args.op = "orderbook_delta"
   /\ args.msg.ticker \notin DOMAIN args.before
   /\ args.applied >= 1)
    => /\ kalshi_orderbook = args.before
       /\ kalshi_ob_ts = args.before_ts

\* a delta with entries for KXB was handled a second after KXA's book was
\* stored
C4_Witness ==
  /\ args.op = "orderbook_delta"
  /\ args.msg.ticker = "KXB"
  /\ args.msg.yes # <<>>
  /\ args.applied >= 1
  /\ DOMAIN kalshi_orderbook = {"KXA"}
  /\ kalshi_ob_ts["KXA"] < now

\* ------------------------------------------------------------------------
\* Paper fills (trader.py: TradingBot._simulate_fill)
\*
\* A book is [yes |-> bids, no |-> bids], each a sequence of
\* <<price in cents, resting quantity>>.  The fill fraction is in percent.
\* ------------------------------------------------------------------------

\* Python's round(n / d) for d > 0: halves go to the even neighbour
RoundHalfEven(n, d) ==
  LET q == n \div d
      r == n % d
  IN  IF 2 * r < d THEN q
      ELSE IF 2 * r > d THEN q + 1
      ELSE IF q % 2 = 0 THEN q ELSE q + 1

\* the side an order consumes: a buy is matched with the bids of the
\* opposite side, a sell with the bids of its own side
RawLevels(orderbook, action, side) ==
  IF action = "buy"
  THEN (IF side = "yes" THEN orderbook.no ELSE orderbook.yes)
  ELSE (IF side = "yes" THEN orderbook.yes ELSE orderbook.no)

\* the condition of the list comprehension on a resting bid at p
CrossesAlways(action, p, limit_price_cents) == TRUE

Crosses(action, p, limit_price_cents) ==
  IF action = "buy" THEN p >= 100 - limit_price_cents ELSE p >= limit_price_cents

\* the price a fill against a resting bid at p is made at
FillPrice(action, p) == IF action = "buy" THEN 100 - p ELSE p

\* levels = [(price, q) for p, q in raw_levels if <crosses>]
CrossingLevels(orderbook, action, side, limit_price_cents) ==
  LET raw == SelectSeq(RawLevels(orderbook, action, side),
                       LAMBDA e : Crosses(action, e[1], limit_price_cents))
  IN  [i \in 1..Len(raw) |-> <<FillPrice(action, raw[i][1]), raw[i][2]>>]

\* levels.sort(key=price), reverse=True for a sell; the sort is stable
RECURSIVE InsertLevel(_, _, _)
InsertLevel(sorted, x, action) ==
  IF sorted = <<>> THEN <<x>>
  ELSE IF (IF action = "buy" THEN Head(sorted)[1] <= x[1] ELSE Head(sorted)[1] >= x[1])
       THEN <<Head(sorted)>> \o InsertLevel(Tail(sorted), x, action)
       ELSE <<x>> \o sorted

RECURSIVE SortLevels(_, _)
SortLevels(levels, action) ==
  IF levels = <<>> THEN <<>>
  ELSE InsertLevel(SortLevels(SubSeq(levels, 1, Len(levels) - 1), action),
                   levels[Len(levels)], action)

\* available = max(1, int(qty_at_level * fill_fraction))
AvailableWholeLevel(qty_at_level, fill_fraction) == qty_at_level

Available(qty_at_level, fill_fraction) ==
  Max(1, (qty_at_level * fill_fraction) \div 100)

\* take = min(available, quantity - filled)
TakeAvailable(available, remaining) == available

Take(available, remaining) == Min(available, remaining)

\* the loop over the sorted levels: <<filled, fills>>
RECURSIVE FillLoop(_, _, _, _, _)
FillLoop(levels, quantity, fill_fraction, filled, fills) ==
  IF levels = <<>> \/ filled >= quantity THEN <<filled, fills>>
  ELSE LET take == Take(Available(Head(levels)[2], fill_fraction), quantity - filled)
       IN  FillLoop(Tail(levels), quantity, fill_fraction, filled + take,
                    Append(fills, <<Head(levels)[1], take>>))

\* sum(p * q for p, q in fills)
RECURSIVE SumCost(_)
SumCost(fills) ==
  IF fills = <<>> THEN 0 ELSE Head(fills)[1] * Head(fills)[2] + SumCost(Tail(fills))

\* returns (filled_qty, avg_price_cents, fills)
simulate_fill(orderbook, action, side, limit_price_cents, quantity, fill_fraction) ==
  LET levels == SortLevels(CrossingLevels(orderbook, action, side, limit_price_cents),
                           action)
      r      == FillLoop(levels, quantity, fill_fraction, 0, <<>>)
      filled == r[1]
      fills  == r[2]
  IN  IF filled = 0 THEN [filled |-> 0, avg |-> 0, fills |-> <<>>]
      ELSE [filled |-> filled, avg |-> RoundHalfEven(SumCost(fills), filled),
            fills |-> fills]

\* ------------------------------------------------------------------------
\* SpecFill: _simulate_fill over drawn books, requests and fill fractions
\* ------------------------------------------------------------------------

\* resting quantities, bid prices of the no side, limit prices, and the
\* configured fill fractions in percent (the tunable's minimum, a middle
\* value, and its maximum, which is the default)
FillQtys == {1, 4}

FillNoLevels == {40, 50}

Limits == {45, 55, 65}

FillFractions == {5, 50, 100}

\* largest requested quantity
MaxQuantity == 5

\* one side of a book: distinct price levels from L, quantities from Q
BookSides(L, Q) ==
  {b \in SeqsUpTo(L \X Q, Cardinality(L)) :
     \A i, j \in 1..Len(b) : i # j => b[i][1] # b[j][1]}

InitFill ==
  /\ prices = [v \in Venues |-> 0]
  /\ exchange_connected = [v \in Venues |-> FALSE]
  /\ weighted_price = Zero
  /\ lead_lag_spread = Zero
  /\ fresh = [v \in Venues |-> FALSE]
  /\ running = FALSE
  /\ pc = [f \in Feeds |-> "none"]
  /\ delay = [f \in Feeds |-> RECONNECT_BASE_DELAY]
  /\ stop_pc = "idle"
  /\ env = [fails |-> 0, ticks |-> 0]
  /\ failures = [f \in Feeds |-> 0]
  /\ kalshi_connected = FALSE
  /\ kalshi_ws = "None"
  /\ kalshi_subscribed_ob = {}
  /\ kalshi_orderbook = <<>>
  /\ kalshi_ob_ts = <<>>
  /\ now = 0
  /\ contract_settlement_prices = <<>>
  /\ contract_start_ts = 0
  /\ \E ff \in FillFractions : config = [ConfigDefaults EXCEPT !.PAPER_FILL_FRACTION = ff]
  /\ \E y \in BookSides(Levels, FillQtys), n \in BookSides(FillNoLevels, FillQtys),
        a \in {"buy", "sell"}, sd \in {"yes", "no"}, l \in Limits, q \in 0..MaxQuantity :
        args = [op |-> "simulate_fill", orderbook |-> [yes |-> y, no |-> n],
                action |-> a, side |-> sd, limit_price_cents |-> l, quantity |-> q]
  /\ ret = [set |-> FALSE]
  /\ BotInit

CallSimulateFill ==
  /\ args.op = "simulate_fill"
  /\ ~ret.set
  /\ ret' = [set |-> TRUE,
             val |-> simulate_fill(args.orderbook, args.action, args.side,
                                   args.limit_price_cents, args.quantity,
                                   config.PAPER_FILL_FRACTION)]
  /\ UNCHANGED <<feedVars, venueVars, kalshiVars, contractVars, config, traderVars, paperVars, orderVars, taskVars, args>>

NextFill == CallSimulateFill

SpecFill == InitFill /\ [][NextFill]_vars

FillReturned == args.op = "simulate_fill" /\ ret.set

\* the bids an order can be matched with, written out case by case
MatchableBids ==
  IF args.action = "buy" /\ args.side = "yes" THEN args.orderbook.no
  ELSE IF args.action = "buy" /\ args.side = "no" THEN args.orderbook.yes
  ELSE IF args.side = "yes" THEN args.orderbook.yes
  ELSE args.orderbook.no

\* the price of the order's own side at which bid i can be taken
SameSidePrice(i) ==
  IF args.action = "buy" THEN 100 - MatchableBids[i][1] ELSE MatchableBids[i][1]

PriceCrossesLimit(p) ==
  IF args.action = "buy" THEN p <= args.limit_price_cents
  ELSE p >= args.limit_price_cents

\* C5: every returned fill is made at the same-side price of a resting level
\* and that price crosses the limit (<= limit for a buy, >= limit for a
\* sell); when no level crosses, the filled quantity is 0 and the fill list
\* is empty.
C5_FillsCrossLimit ==
  FillReturned =>
    /\ \A k \in 1..Len(ret.val.fills) :
         /\ PriceCrossesLimit(ret.val.fills[k][1])
         /\ \E i \in 1..Len(MatchableBids) : SameSidePrice(i) = ret.val.fills[k][1]
    /\ (\A i \in 1..Len(MatchableBids) : ~PriceCrossesLimit(SameSidePrice(i)))
          => (ret.val.filled = 0 /\ ret.val.fills = <<>>)

\* a buy of 5 yes at 55 against no bids at 40 and 50: only the bid at 50
\* (yes at 50) crosses, the bid at 40 (yes at 60) is left alone
C5_Witness ==
  /\ FillReturned
  /\ args.action = "buy" /\ args.side = "yes"
  /\ args.limit_price_cents = 55 /\ args.quantity = 5
  /\ args.orderbook.no = << <<40, 4>>, <<50, 1>> >>
  /\ config.PAPER_FILL_FRACTION = 100
  /\ ret.val.fills = << <<50, 1>> >>
  /\ ret.val.filled = 1

RECURSIVE SumQty(_)
SumQty(fills) == IF fills = <<>> THEN 0 ELSE Head(fills)[2] + SumQty(Tail(fills))

\* C6: the filled quantity never exceeds the requested quantity and equals
\* the sum of the quantities in the returned fill list.
C6_FilledWithinRequest ==
  FillReturned =>
    /\ ret.val.filled <= args.quantity
    /\ ret.val.filled = SumQty(ret.val.fills)

\* a sell of 5 yes at 45 into bids of 4 at 60 and 4 at 50 stops at 5
C6_Witness ==
  /\ FillReturned
  /\ args.action = "sell" /\ args.side = "yes"
  /\ args.limit_price_cents = 45 /\ args.quantity = 5
  /\ args.orderbook.yes = << <<50, 4>>, <<60, 4>> >>
  /\ config.PAPER_FILL_FRACTION = 100
  /\ ret.val = [filled |-> 5, avg |-> 58, fills |-> << <<60, 4>>, <<50, 1>> >>]

\* the resting quantity of the level a fill at same-side price p was taken
\* from (price levels of a side are distinct)
LevelQty(p) ==
  MatchableBids[CHOOSE i \in 1..Len(MatchableBids) : SameSidePrice(i) = p][2]

\* C7 as stated: the quantity taken from a level is at most fillFraction
\* times the level's resting quantity.
C7_TakeWithinFraction ==
  FillReturned =>
    \A k \in 1..Len(ret.val.fills) :
      ret.val.fills[k][2] * 100
        <= config.PAPER_FILL_FRACTION * LevelQty(ret.val.fills[k][1])

\* C7 amended: the quantity taken from a level is at most the larger of 1
\* and fillFraction times the level's resting quantity rounded down, and so
\* never more than the resting quantity of a level that rests at least 1.
C7_TakeWithinFractionOrOne ==
  FillReturned =>
    \A k \in 1..Len(ret.val.fills) :
      LET q    == LevelQty(ret.val.fills[k][1])
          take == ret.val.fills[k][2]
      IN  /\ \/ take <= 1
             \/ take * 100 <= config.PAPER_FILL_FRACTION * q
          /\ q >= 1 => take <= q

\* at 50 percent a request for 5 takes 2 of the 4 resting at 60 and then the
\* whole single unit resting at 50
C7_Witness ==
  /\ FillReturned
  /\ args.action = "sell" /\ args.side = "yes"
  /\ args.limit_price_cents = 45 /\ args.quantity = 5
  /\ args.orderbook.yes = << <<50, 1>>, <<60, 4>> >>
  /\ config.PAPER_FILL_FRACTION = 50
  /\ ret.val.fills = << <<60, 2>>, <<50, 1>> >>

\* ------------------------------------------------------------------------
\* Fair value (alpha_engine.py: get_fair_value)
\*
\* Dollar amounts and weights are exact fractions; the realized volatility
\* is in units of 0.0001, the steepness k in tenths, the probability in
\* per-mille.
\* ------------------------------------------------------------------------

Abs(n) == IF n < 0 THEN -n ELSE n

RECURSIVE Gcd(_, _)
Gcd(a, b) == IF b = 0 THEN a ELSE Gcd(b, a % b)

\* a fraction with a positive denominator, in lowest terms
Norm(r) ==
  LET g == Gcd(Abs(r[1]), r[2])
  IN  <<r[1] \div g, r[2] \div g>>

RatAdd(a, b) == Norm(<<a[1] * b[2] + b[1] * a[2], a[2] * b[2]>>)

RatMul(a, b) == Norm(<<a[1] * b[1], a[2] * b[2]>>)

\* a / b for b > 0
RatDiv(a, b) == Norm(<<a[1] * b[2], a[2] * b[1]>>)

RatLess(a, b) == a[1] * b[2] < b[1] * a[2]

\* Python's min(a, b) and max(a, b)
RatMin(a, b) == IF RatLess(b, a) THEN b ELSE a

RatMax(a, b) == IF RatLess(a, b) THEN b ELSE a

\* math.sqrt(n / d) in hundredths, rounded down
RECURSIVE ISqrtIn(_, _, _)
ISqrtIn(n, lo, hi) ==
  IF lo >= hi THEN lo
  ELSE LET mid == (lo + hi + 1) \div 2
       IN  IF mid * mid <= n THEN ISqrtIn(n, mid, hi) ELSE ISqrtIn(n, lo, mid - 1)

SqrtHundredths(n, d) == ISqrtIn((10000 * n) \div d, 0, 10000)

\* 1000 / (1 + exp(-x)) at x = -10, -9.5, ..., 10, rounded to per-mille
LogisticTable ==
  << 0, 0, 0, 0, 0, 1, 1, 2, 2, 4, 7, 11, 18, 29, 47, 76, 119, 182, 269, 378,
     500,
     622, 731, 818, 881, 924, 953, 971, 982, 989, 993, 996, 998, 998, 999, 999,
     1000, 1000, 1000, 1000, 1000 >>

\* fair_prob = 1.0 / (1.0 + math.exp(-k * z_score)), with x = k * z_score
\* read off the table at x rounded down to a half; math.exp overflows for
\* an argument above 709, and the except branch returns 1.0 or 0.0
Logistic(x, z_score) ==
  IF RatLess(x, <<-709, 1>>)
  THEN (IF z_score[1] > 0 THEN 1000 ELSE 0)
  ELSE LogisticTable[Max(-20, Min(20, (2 * x[1]) \div x[2])) + 21]

\* fair_prob = max(0.01, min(0.99, fair_prob))
ClampOff(fair_prob) == fair_prob

Clamp(fair_prob) == Max(10, Min(990, fair_prob))

RECURSIVE SumPrices(_)
SumPrices(csp) == IF csp = <<>> THEN 0 ELSE Head(csp)[2] + SumPrices(Tail(csp))

\* the full-contract settlement average: the contract window's samples, else
\* the plain mean of the live settlement venues, else the consensus price
AvgSettlement(pr, csp, gwp) ==
  LET settle_valid == {k \in SETTLEMENT_EXCHANGES : pr[k] > 0}
  IN  IF csp # <<>> THEN Norm(<<SumPrices(csp), Len(csp)>>)
      ELSE IF settle_valid # {}
           THEN Norm(<<SumOver(settle_valid, pr), Cardinality(settle_valid)>>)
           ELSE gwp

\* current_weight = min(0.85, seconds_remaining / total + 0.3)
CurrentWeight(seconds_remaining, start_ts, t) ==
  LET elapsed == Max(t - start_ts, 1)
      total   == elapsed + seconds_remaining
  IN  RatMin(<<85, 100>>, RatAdd(<<seconds_remaining, total>>, <<3, 10>>))

\* projected settlement: the blend while a contract window is open and time
\* remains, else the settlement average
Projected(avg_settlement, gwp, seconds_remaining, start_ts, t) ==
  IF seconds_remaining > 0 /\ start_ts > 0
  THEN LET current_weight == CurrentWeight(seconds_remaining, start_ts, t)
       IN  RatAdd(RatMul(avg_settlement, RatSub(<<1, 1>>, current_weight)),
                  RatMul(gwp, current_weight))
  ELSE avg_settlement

\* dollar_vol = max(gwp * vol * sqrt(max(seconds_remaining, 1) / 5), 1.0),
\* with vol = volatility_5m if it is positive else 0.0001
DollarVol(gwp, volatility_5m, seconds_remaining) ==
  LET vol == IF volatility_5m > 0 THEN volatility_5m ELSE 1
  IN  RatMax(RatMul(RatMul(gwp, <<vol, 10000>>),
                    <<SqrtHundredths(Max(seconds_remaining, 1), 5), 100>>),
             <<1, 1>>)

\* volatility_5m stands for get_volatility()["volatility_5m"] at the call
get_fair_value(pr, csp, start_ts, t, volatility_5m, k, strike_price, seconds_remaining) ==
  LET gwp == Norm(get_weighted_global_price(pr))
  IN  IF gwp[1] <= 0 \/ strike_price <= 0
      THEN [fair_yes_prob |-> 500, fair_yes_cents |-> 50,
            btc_vs_strike |-> Zero, projected_settlement |-> Zero]
      ELSE LET avg_settlement == AvgSettlement(pr, csp, gwp)
               projected  == Projected(avg_settlement, gwp, seconds_remaining, start_ts, t)
               settlement_vs_strike == Norm(RatSub(projected, <<strike_price, 1>>))
               dollar_vol == DollarVol(gwp, volatility_5m, seconds_remaining)
               z_score    == RatDiv(settlement_vs_strike, dollar_vol)
               fair_prob  == Clamp(Logistic(RatMul(<<k, 10>>, z_score), z_score))
           IN  [fair_yes_prob |-> fair_prob,
                fair_yes_cents |-> RoundHalfEven(fair_prob, 10),
                btc_vs_strike |-> Norm(RatSub(gwp, <<strike_price, 1>>)),
                projected_settlement |-> projected]

\* ------------------------------------------------------------------------
\* SpecFair: get_fair_value over drawn monitor states and arguments
\* ------------------------------------------------------------------------

\* strikes (0 = none), remaining seconds, realized volatilities (0 = too
\* little history; 0.0001; 0.05), steepness values (the tunable's minimum,
\* its default, its maximum), contract window starts (0 = none)
Strikes == {0, 50, 100, 105, 5000}

SecondsRemaining == {0, 5, 20, 45}

Volatilities == {0, 1, 500}

Steepness == {1, 6, 30}

StartTimes == {0, 10, 20}

\* longest list of contract-window samples
MaxSamples == 2

InitFair ==
  /\ \E b \in {0} \cup PriceSet, c \in {0} \cup PriceSet :
        prices = [v \in Venues |-> IF v = "binance" THEN b
                                   ELSE IF v = "coinbase" THEN c ELSE 0]
  /\ exchange_connected = [v \in Venues |-> FALSE]
  /\ weighted_price = get_weighted_global_price(prices)
  /\ lead_lag_spread = get_lead_vs_settlement(prices)[3]
  /\ fresh = [v \in Venues |-> prices[v] > 0]
  /\ running = FALSE
  /\ pc = [f \in Feeds |-> "none"]
  /\ delay = [f \in Feeds |-> RECONNECT_BASE_DELAY]
  /\ stop_pc = "idle"
  /\ env = [fails |-> 0, ticks |-> 0]
  /\ failures = [f \in Feeds |-> 0]
  /\ kalshi_connected = FALSE
  /\ kalshi_ws = "None"
  /\ kalshi_subscribed_ob = {}
  /\ kalshi_orderbook = <<>>
  /\ kalshi_ob_ts = <<>>
  /\ now = 20
  /\ contract_settlement_prices \in SeqsUpTo({now} \X PriceSet, MaxSamples)
  /\ contract_start_ts \in StartTimes
  /\ \E k \in Steepness : config = [ConfigDefaults EXCEPT !.FAIR_VALUE_K = k]
  /\ \E s \in Strikes, r \in SecondsRemaining, vol \in Volatilities :
        args = [op |-> "get_fair_value", strike_price |-> s,
                seconds_remaining |-> r, volatility_5m |-> vol]
  /\ ret = [set |-> FALSE]
  /\ BotInit

CallGetFairValue ==
  /\ args.op = "get_fair_value"
  /\ ~ret.set
  /\ ret' = [set |-> TRUE,
             val |-> get_fair_value(prices, contract_settlement_prices,
                                    contract_start_ts, now, args.volatility_5m,
                                    config.FAIR_VALUE_K, args.strike_price,
                                    args.seconds_remaining)]
  /\ UNCHANGED <<feedVars, venueVars, kalshiVars, contractVars, config, traderVars, paperVars, orderVars, taskVars, args>>

NextFair == CallGetFairValue

SpecFair == InitFair /\ [][NextFair]_vars

FairReturned == args.op = "get_fair_value" /\ ret.set

\* C8: the probability get_fair_value returns lies in [0.01, 0.99], it is
\* 0.5 when there is no consensus price or no strike, and fair_yes_cents
\* lies in [1, 99].
C8_FairValueInRange ==
  FairReturned =>
    /\ ret.val.fair_yes_prob >= 10
    /\ ret.val.fair_yes_prob <= 990
    /\ ((\A v \in Venues : prices[v] <= 0) \/ args.strike_price <= 0)
          => ret.val.fair_yes_prob = 500
    /\ ret.val.fair_yes_cents >= 1
    /\ ret.val.fair_yes_cents <= 99

\* a strike far above the consensus price with the steepest k takes the
\* exponential past its overflow: the raw probability 0.0 comes back as 0.01
C8_Witness ==
  /\ FairReturned
  /\ prices["binance"] = 100
  /\ args.strike_price = 5000
  /\ config.FAIR_VALUE_K = 30
  /\ ret.val.fair_yes_prob = 10
  /\ ret.val.fair_yes_cents = 1

\* ------------------------------------------------------------------------
\* SpecLive: the fallback task set under the scheduling the event loop
\* gives: a backoff sleep ends, a cancelled task is resumed with its
\* CancelledError, and gather returns once every task has finished
\* ------------------------------------------------------------------------

\* failures the environment delivers in one run of SpecLive
MaxLiveFailures == 2

InitLive ==
  /\ MonitorInit
  /\ env = [fails |-> MaxLiveFailures, ticks |-> MaxTicks]
  /\ config = ConfigDefaults
  /\ args = [op |-> "none"]
  /\ ret = [set |-> FALSE]
  /\ BotInit

NextLive == NextFallback

Fairness ==
  /\ \A f \in FallbackTasks : WF_vars(SleepDone(f))
  /\ \A f \in FallbackTasks : WF_vars(TaskCancelled(f))
  /\ WF_vars(StopReturn)

SpecLive == InitLive /\ [][NextLive]_vars /\ Fairness

Active == {"connecting", "subscribing", "streaming", "sleeping"}

\* no step taken while the monitor stays running ends a feed task
NoExitWhileRunning ==
  \A f \in Feeds : (running /\ running' /\ pc[f] \in Active) => pc'[f] \in Active

Stopped == ~running /\ stop_pc = "idle"

NothingLeft ==
  /\ \A f \in Feeds : pc[f] = "none"
  /\ \A v \in Venues : ~exchange_connected[v]
  /\ ~kalshi_connected
  /\ kalshi_ws = "None"

\* C12: after stop() is called every feed task terminates, whether it was
\* connecting, reading its stream or sleeping in backoff, so stop() returns;
\* when it has returned no feed task remains and every venue and the broker
\* connection are marked disconnected.
C12_StopTerminatesAll ==
  /\ (stop_pc = "gather") ~> Stopped
  /\ [](Stopped => NothingLeft)

\* stop() has returned after a run in which a feed failed twice and a venue
\* delivered a price
C12_Witness ==
  /\ Stopped
  /\ NothingLeft
  /\ \E f \in FallbackTasks : failures[f] = 2
  /\ \E v \in Venues : prices[v] > 0

\* ------------------------------------------------------------------------
\* Isolation of the venue streams (Spec)
\* ------------------------------------------------------------------------

\* some other venue is out: failing over to, or sleeping in, its backoff
OtherVenueOut(f) == \E g \in Venues \ {f} : pc[g] = "sleeping"

\* a connected venue can deliver its tick whatever the other venues do
TickNeverBlocked ==
  \A f \in Venues :
    (running /\ pc[f] = "streaming" /\ env.ticks > 0)
       => \A p \in PriceSet : ENABLED VenueTick(f, p)

\* a tick that arrives during another venue's outage is stored and enters
\* the consensus price
TickProcessedDuringOutage ==
  \A f \in Venues :
    (running /\ running' /\ pc[f] = "streaming" /\ OtherVenueOut(f)
       /\ env'.ticks < env.ticks /\ prices'[f] # prices[f])
      => /\ prices'[f] \in PriceSet
         /\ weighted_price' = get_weighted_global_price(prices')
         /\ \A g \in Venues \ {f} : prices'[g] = prices[g]

\* a venue's failure, backoff and reconnect leave every other venue's task,
\* delay, connection flag and last price as they are
OutageIsLocal ==
  \A g \in Venues :
    (running /\ running' /\ pc'[g] # pc[g])
      => \A f \in Venues \ {g} :
           /\ pc'[f] = pc[f]
           /\ delay'[f] = delay[f]
           /\ exchange_connected'[f] = exchange_connected[f]
           /\ prices'[f] = prices[f]

\* C13: venue feeds are isolated: while one venue is failing or sleeping in
\* backoff, a tick from any other connected venue is still processed and
\* updates that venue's last price and the consensus price, and no venue's
\* outage changes another venue's progress.
C13_VenuesIsolated ==
  /\ []TickNeverBlocked
  /\ [][TickProcessedDuringOutage]_vars
  /\ [][OutageIsLocal]_vars

\* okx is sleeping off a failure while kraken, connected, has delivered 110,
\* which is the consensus price
C13_Witness ==
  /\ running
  /\ pc["okx"] = "sleeping"
  /\ pc["kraken"] = "streaming"
  /\ exchange_connected["kraken"]
  /\ prices["kraken"] = 110
  /\ RatEq(weighted_price, <<110, 1>>)


\* ------------------------------------------------------------------------
\* The trading bot (src/trader.py): configuration and observations
\* ------------------------------------------------------------------------

\* the tunables of config.py that TradingBot._cycle reads, at their defaults
TraderDefaults ==
  [TRADING_ENABLED |-> FALSE, MIN_SECONDS_TO_CLOSE |-> 90, MAX_SPREAD_CENTS |-> 25,
   MIN_CONTRACT_PRICE |-> 5, MAX_CONTRACT_PRICE |-> 85, STOP_LOSS_CENTS |-> 15,
   HIT_RUN_PCT |-> 0, PROFIT_TAKE_PCT |-> 50, FREE_ROLL_PRICE |-> 90,
   PROFIT_TAKE_MIN_SECS |-> 300, HOLD_EXPIRY_SECS |-> 120,
   EDGE_EXIT_ENABLED |-> TRUE, EDGE_EXIT_THRESHOLD_CENTS |-> 2,
   EDGE_EXIT_MIN_HOLD_SECS |-> 30, EDGE_EXIT_COOLDOWN_SECS |-> 30,
   REENTRY_EDGE_PREMIUM |-> 3, DELTA_THRESHOLD |-> 20,
   EXTREME_DELTA_THRESHOLD |-> 50, ANCHOR_SECONDS_THRESHOLD |-> 60,
   LEAD_LAG_ENABLED |-> FALSE, MIN_EDGE_CENTS |-> 5]

\* the settings under which the cycle is explored: the defaults (a dry run),
\* trading switched on, and trading with hit-and-run switched on
HitRunPcts == {0, 20}

TraderConfigs ==
  {TraderDefaults}
    \cup {[TraderDefaults EXCEPT !.TRADING_ENABLED = TRUE, !.HIT_RUN_PCT = h] :
            h \in HitRunPcts}

\* the position found at start-up: the paper positions _restore_paper_state
\* reads back, or the portfolio at the exchange
StartPositions ==
  {NoPosition, [position |-> 3, avg |-> <<62, 1>>], [position |-> -2, avg |-> <<40, 1>>]}

\* the largest position and order the sizing of a cycle can arrive at
MaxPosition == 3

MaxOrder == 2

\* cycles per behaviour
MaxCycles == 2

\* time.time() when run() starts its first cycle, and the time from one cycle
\* to the next
Epoch == 100

Ticks == {20, 40}

\* market["_seconds_to_close"] as fetch_active_market computes it
SecsLeft == {50, 100, 400}

\* fair_yes_cents of get_fair_value; NoFair: no alpha monitor, no strike, or the call raised
FairValues == {20, 70}

NoFair == -1

\* AlphaMonitor.delta_momentum
Momenta == {-30, 0, 60}

\* the decision of agent.analyze_market, "HOLD" also when the confidence is too low
RuleDecisions == {"HOLD", "BUY_YES", "BUY_NO"}

\* the order books the exchange may show: empty, and two-sided around 31, 61 and 93
OrderBooks ==
  {[yes |-> <<>>, no |-> <<>>],
   [yes |-> <<<<28, 5>>, <<30, 5>>>>, no |-> <<<<68, 5>>>>],
   [yes |-> <<<<60, 5>>>>, no |-> <<<<38, 5>>, <<36, 5>>>>],
   [yes |-> <<<<92, 5>>>>, no |-> <<<<6, 5>>>>]}

LevelPrices(levels) == {levels[i][1] : i \in 1..Len(levels)}

SetMax(S) == CHOOSE x \in S : \A y \in S : y <= x

spread_guard(orderbook) ==
  LET yes_orders == orderbook.yes
      no_orders == orderbook.no
      best_bid == IF yes_orders # <<>> THEN SetMax(LevelPrices(yes_orders)) ELSE 0
      best_ask == IF no_orders # <<>> THEN 100 - SetMax(LevelPrices(no_orders)) ELSE 100
  IN  IF yes_orders = <<>> /\ no_orders = <<>>
      THEN [ok |-> FALSE, best_bid |-> 0, best_ask |-> 100]
      ELSE IF yes_orders # <<>> /\ no_orders # <<>>
              /\ best_ask - best_bid > config.MAX_SPREAD_CENTS
      THEN [ok |-> FALSE, best_bid |-> best_bid, best_ask |-> best_ask]
      ELSE [ok |-> TRUE, best_bid |-> best_bid, best_ask |-> best_ask]

time_guard(secs) == secs >= config.MIN_SECONDS_TO_CLOSE

\* ------------------------------------------------------------------------
\* Exit rules of _cycle, evaluated on the position fetched at the cycle's start
\* ------------------------------------------------------------------------

Sign(n) == IF n > 0 THEN 1 ELSE IF n < 0 THEN -1 ELSE 0

SellSide(pos_qty) == IF pos_qty > 0 THEN "yes" ELSE "no"

RawExitPrice(pos_qty, best_bid, best_ask) ==
  IF pos_qty > 0 THEN best_bid ELSE 100 - best_ask

SellPrice(pos_qty, best_bid, best_ask) ==
  Max(1, Min(99, RawExitPrice(pos_qty, best_bid, best_ask)))

HoldToExpiryOff(secs_left) == FALSE

HoldToExpiry(secs_left) == secs_left < config.HOLD_EXPIRY_SECS

\* loss_per_contract = (market_exposure - mark_to_market_exit) / |position|,
\* with market_exposure = avg * |position|
StopLoss(my_pos, best_bid, best_ask) ==
  /\ config.STOP_LOSS_CENTS > 0
  /\ ~RatLess(RatSub(my_pos.avg,
                     <<RawExitPrice(my_pos.position, best_bid, best_ask), 1>>),
              <<config.STOP_LOSS_CENTS, 1>>)

EdgeExit(my_pos, best_bid, best_ask, secs_left, fair, hold_elapsed) ==
  /\ config.EDGE_EXIT_ENABLED
  /\ fair # NoFair
  /\ LET remaining_edge == IF my_pos.position > 0 THEN fair - best_bid
                           ELSE best_ask - fair
     IN  remaining_edge * 900
           <= config.EDGE_EXIT_THRESHOLD_CENTS * Min(900, Max(0, secs_left))
  /\ hold_elapsed >= config.EDGE_EXIT_MIN_HOLD_SECS

\* gain_pct >= pct, with gain_pct = (current_value - avg_cost) / avg_cost * 100
GainAtLeast(my_pos, current_value, pct) ==
  IF my_pos.avg[1] > 0
  THEN (current_value * my_pos.avg[2] - my_pos.avg[1]) * 100 >= pct * my_pos.avg[1]
  ELSE 0 >= pct

HitAndRun(my_pos, current_value) ==
  config.HIT_RUN_PCT > 0 /\ GainAtLeast(my_pos, current_value, config.HIT_RUN_PCT)

ProfitTake(my_pos, current_value, secs_left) ==
  /\ GainAtLeast(my_pos, current_value, config.PROFIT_TAKE_PCT)
  /\ secs_left > config.PROFIT_TAKE_MIN_SECS

FreeRollAgain(my_pos, current_value, ticker, rolled) ==
  current_value >= config.FREE_ROLL_PRICE /\ Abs(my_pos.position) >= 2

FreeRoll(my_pos, current_value, ticker, rolled) ==
  /\ current_value >= config.FREE_ROLL_PRICE
  /\ ticker \notin rolled
  /\ Abs(my_pos.position) >= 2

HalfQty(pos_qty) == Max(1, Abs(pos_qty) \div 2)

\* the exit rules in the order _cycle tests them, after hold-to-expiry
ExitRulesProfitFirst == <<"profit_take", "hit_and_run", "free_roll", "stop_loss", "edge_exit">>

ExitRules == <<"stop_loss", "edge_exit", "hit_and_run", "profit_take", "free_roll">>

\* the rules whose condition holds in this cycle
EligibleRules(my_pos, best_bid, best_ask, secs_left, fair, hold_elapsed, ticker, rolled) ==
  LET cv == SellPrice(my_pos.position, best_bid, best_ask)
  IN  (IF StopLoss(my_pos, best_bid, best_ask) THEN {"stop_loss"} ELSE {})
        \cup (IF EdgeExit(my_pos, best_bid, best_ask, secs_left, fair, hold_elapsed)
              THEN {"edge_exit"} ELSE {})
        \cup (IF HitAndRun(my_pos, cv) THEN {"hit_and_run"} ELSE {})
        \cup (IF ProfitTake(my_pos, cv, secs_left) THEN {"profit_take"} ELSE {})
        \cup (IF FreeRoll(my_pos, cv, ticker, rolled) THEN {"free_roll"} ELSE {})

\* index in ExitRules of the first rule at or after from whose condition holds, 0 if none
FirstEligible(from, eligible) ==
  LET idx == {i \in from..Len(ExitRules) : ExitRules[i] \in eligible}
  IN  IF idx = {} THEN 0 ELSE CHOOSE i \in idx : \A j \in idx : i <= j

\* ------------------------------------------------------------------------
\* Orders: close_position, place_order and what they do to the position
\* ------------------------------------------------------------------------

\* how a call of close_position can end: it returns the order, it returns None
\* (rejected, or nothing to fill), it raises after the sell was submitted
\* (_request gives up on a read timeout, or a database write fails), or, in
\* live mode, it raises before anything was sent
CloseOutcomes ==
  IF paper_mode THEN {"order", "none", "raise"} ELSE {"order", "none", "raise", "error"}

\* _paper_close_position returns None when no position is left
CloseResult(pos, outcome) == IF paper_mode /\ pos.position = 0 THEN "none" ELSE outcome

Submitted(result) == result \in {"order", "raise"}

Reduce(pos, quantity) ==
  LET left == Abs(pos.position) - Min(quantity, Abs(pos.position))
  IN  IF left = 0 THEN NoPosition
      ELSE [position |-> Sign(pos.position) * left, avg |-> pos.avg]

close_position(pos, quantity, outcome) ==
  IF Submitted(CloseResult(pos, outcome)) THEN Reduce(pos, quantity) ELSE pos

\* a buy of count contracts of side at price, filled: _paper_place_order
\* accumulates on the same side and reduces an opposite position; the exchange
\* nets the two sides
Accumulate(pos, side, count, price) ==
  LET sgn == IF side = "yes" THEN 1 ELSE -1
      held == Abs(pos.position)
      net == pos.position + sgn * count
  IN  IF pos.position = 0
      THEN [position |-> sgn * count, avg |-> <<price, 1>>]
      ELSE IF Sign(pos.position) = sgn
      THEN [position |-> net,
            avg |-> Norm(<<pos.avg[1] * held + price * count * pos.avg[2],
                           pos.avg[2] * (held + count)>>)]
      ELSE IF paper_mode
      THEN Reduce(pos, count)
      ELSE IF net = 0 THEN NoPosition
      ELSE IF Sign(net) = Sign(pos.position) THEN [position |-> net, avg |-> pos.avg]
      ELSE [position |-> net, avg |-> <<price, 1>>]

\* how a call of place_order can end: None, an order resting unfilled, or an
\* order filled
PlaceOutcomes == {"rejected", "resting", "filled"}

max_retries == 3

\* how _wait_and_retry can go for an order that rests: n retry orders are placed,
\* all but the last rest, and the last is filled, rests or is rejected; in live
\* mode it can also return before any retry
Chases ==
  {[n |-> k, end |-> "filled"] : k \in 1..max_retries}
    \cup {[n |-> max_retries, end |-> e] : e \in {"resting", "rejected"}}
    \cup (IF paper_mode THEN {} ELSE {[n |-> 0, end |-> "filled"], [n |-> 0, end |-> "resting"]})

NoChase == [n |-> 0, end |-> "none"]

\* ------------------------------------------------------------------------
\* _cycle, step 5: exit logic
\* ------------------------------------------------------------------------

\* the edge-exit block runs inside try/except Exception: pass
Swallowed(rule, result) == rule = "edge_exit" /\ result \in {"raise", "error"}

RuleQty(rule, pos_qty) == IF rule = "free_roll" THEN HalfQty(pos_qty) ELSE Abs(pos_qty)

\* one exit rule fires: the close order and the bookkeeping that follows it
FireRule(b, rule, ticker, my_pos, t, outcome) ==
  LET qty == RuleQty(rule, my_pos.position)
      result == CloseResult(b.positions[ticker], outcome)
      went == result = "order"
  IN  [b EXCEPT
        !.positions[ticker] = close_position(@, qty, outcome),
        !.fired = Append(@, rule),
        !.sells = IF Submitted(result) THEN Append(@, [rule |-> rule, qty |-> qty]) ELSE @,
        !.edge_exit_ts[ticker] = IF went /\ rule = "edge_exit" THEN t ELSE @,
        !.entry_ts[ticker] = IF went /\ rule = "edge_exit" THEN NoTs ELSE @,
        !.took_profit = IF went /\ rule \in {"hit_and_run", "profit_take"}
                        THEN @ \cup {ticker} ELSE @,
        !.free_rolled = IF went /\ rule = "free_roll" THEN @ \cup {ticker} ELSE @,
        !.hist[ticker] =
           [@ EXCEPT !.free_rolls = IF went /\ rule = "free_roll" THEN @ + 1 ELSE @,
                     !.took_profit = @ \/ (went /\ rule \in {"hit_and_run", "profit_take"}),
                     !.edge_exit = IF went /\ rule = "edge_exit" THEN t ELSE @],
        !.done = ~Swallowed(rule, result),
        !.last_action = rule]

HoldElapsed(b, ticker, t) ==
  t - (IF b.entry_ts[ticker] = NoTs THEN 0 ELSE b.entry_ts[ticker])

Eligible(b, ticker, my_pos, q, secs_left, fair, t) ==
  EligibleRules(my_pos, q.best_bid, q.best_ask, secs_left, fair,
                HoldElapsed(b, ticker, t), ticker, b.free_rolled)

ExitActive(my_pos) == my_pos.position # 0 /\ config.TRADING_ENABLED

\* the first rule that fires, 0 if the exit logic fires none
FirstRule(b, ticker, my_pos, q, secs_left, fair, t) ==
  IF ~ExitActive(my_pos) \/ HoldToExpiry(secs_left) THEN 0
  ELSE FirstEligible(1, Eligible(b, ticker, my_pos, q, secs_left, fair, t))

\* the rule that fires after the first one was swallowed, 0 if none
SecondRule(b, ticker, my_pos, q, secs_left, fair, t, o1) ==
  LET i1 == FirstRule(b, ticker, my_pos, q, secs_left, fair, t)
  IN  IF i1 = 0 \/ ~Swallowed(ExitRules[i1], CloseResult(b.positions[ticker], o1)) THEN 0
      ELSE FirstEligible(i1 + 1, Eligible(b, ticker, my_pos, q, secs_left, fair, t))

ExitLogic(b, ticker, my_pos, q, secs_left, fair, t, o1, o2) ==
  LET i1 == FirstRule(b, ticker, my_pos, q, secs_left, fair, t)
      i2 == SecondRule(b, ticker, my_pos, q, secs_left, fair, t, o1)
      b1 == FireRule(b, ExitRules[i1], ticker, my_pos, t, o1)
  IN  IF ExitActive(my_pos) /\ HoldToExpiry(secs_left)
      THEN [b EXCEPT !.done = TRUE, !.last_action = "hold_to_expiry"]
      ELSE IF i1 = 0 THEN b
      ELSE IF i2 = 0 THEN b1
      ELSE FireRule(b1, ExitRules[i2], ticker, my_pos, t, o2)

\* ------------------------------------------------------------------------
\* _cycle, steps 6 to 8: guards, decision and entry
\* ------------------------------------------------------------------------

yes_edge(fair, q, secs_left) == IF fair # NoFair /\ secs_left > 0 THEN fair - q.best_ask ELSE 0

no_edge(fair, q, secs_left) == IF fair # NoFair /\ secs_left > 0 THEN q.best_bid - fair ELSE 0

Signals == IF config.LEAD_LAG_ENABLED THEN {"NEUTRAL", "BULLISH", "BEARISH"} ELSE {"NEUTRAL"}

alpha_override(my_pos, q, secs_left, fair, signal, momentum, projection_wins) ==
  LET ye == yes_edge(fair, q, secs_left)
      ne == no_edge(fair, q, secs_left)
      min_edge == config.MIN_EDGE_CENTS
      lead_lag == IF config.LEAD_LAG_ENABLED /\ signal = "BULLISH" /\ ye >= min_edge
                  THEN "BUY_YES"
                  ELSE IF config.LEAD_LAG_ENABLED /\ signal = "BEARISH" /\ ne >= min_edge
                  THEN "BUY_NO" ELSE "None"
      front_run == IF lead_lag # "None" THEN lead_lag
                   ELSE IF momentum > config.DELTA_THRESHOLD /\ ye >= min_edge THEN "BUY_YES"
                   ELSE IF momentum < -config.DELTA_THRESHOLD /\ ne >= min_edge THEN "BUY_NO"
                   ELSE "None"
  IN  IF fair = NoFair THEN "None"
      ELSE IF secs_left < config.ANCHOR_SECONDS_THRESHOLD /\ my_pos.position > 0
              /\ ~projection_wins THEN "BUY_NO"
      ELSE IF secs_left < config.ANCHOR_SECONDS_THRESHOLD /\ my_pos.position < 0
              /\ projection_wins THEN "BUY_YES"
      ELSE front_run

extreme_momentum(momentum) == Abs(momentum) > config.EXTREME_DELTA_THRESHOLD

Opposes(side, pos_qty) == (pos_qty > 0 /\ side = "no") \/ (pos_qty < 0 /\ side = "yes")

SameSideGuardOff(my_pos, side) == FALSE

SameSideGuard(my_pos, side) == Opposes(side, my_pos.position)

TPGuardOff(ticker, profited) == FALSE

TPGuard(ticker, profited) == ticker \in profited

EntrySideEdge(side, fair, q, secs_left) ==
  IF side = "yes" THEN yes_edge(fair, q, secs_left) ELSE no_edge(fair, q, secs_left)

EdgeReentryGuardOff(exits, ticker, t, entry_side_edge) == FALSE

EdgeReentryGuard(exits, ticker, t, entry_side_edge) ==
  /\ exits[ticker] # NoTs
  /\ \/ t - exits[ticker] < config.EDGE_EXIT_COOLDOWN_SECS
     \/ entry_side_edge < config.MIN_EDGE_CENTS + config.REENTRY_EDGE_PREMIUM

EntryPrice(side, q, crossing) ==
  IF q.best_ask < 100 /\ q.best_bid > 0
  THEN IF crossing \/ paper_mode
       THEN IF side = "yes" THEN q.best_ask ELSE 100 - q.best_bid
       ELSE Max(1, Min(99, IF side = "yes" THEN (q.best_bid + q.best_ask + 1) \div 2
                           ELSE ((100 - q.best_ask) + (100 - q.best_bid) + 1) \div 2))
  ELSE Max(1, Min(99, IF side = "yes" THEN q.best_bid + 1 ELSE 100 - q.best_ask + 1))

PriceGuard(side, price_cents) ==
  LET effective_price == IF side = "yes" THEN price_cents ELSE 100 - price_cents
  IN  effective_price < config.MIN_CONTRACT_PRICE \/ effective_price > config.MAX_CONTRACT_PRICE

Buy(b, ticker, side, retry) ==
  [side |-> side, held |-> b.positions[ticker].position, retry |-> retry]

RECURSIVE Retries(_, _, _, _)
Retries(b, ticker, side, n) ==
  IF n = 0 THEN b
  ELSE Retries([b EXCEPT !.buys = Append(@, Buy(b, ticker, side, TRUE))], ticker, side, n - 1)

\* _wait_and_retry: the retry orders and what is left of them
wait_and_retry(b, ticker, side, price_cents, qty, chase) ==
  LET b1 == Retries(b, ticker, side, chase.n)
  IN  [b1 EXCEPT
        !.positions[ticker] = IF chase.end = "filled"
                              THEN Accumulate(@, side, qty, price_cents) ELSE @,
        !.resting = IF ~paper_mode /\ chase.end = "resting" THEN b.resting ELSE NoOrder]

\* place_order and the lines of _cycle after it
PlaceOrder(b, ticker, side, price_cents, qty, t, chasing, outcome, chase) ==
  LET order == [ticker |-> ticker, side |-> side, count |-> qty, price |-> price_cents]
      b1 == [b EXCEPT
              !.buys = Append(@, Buy(b, ticker, side, FALSE)),
              !.positions[ticker] = IF outcome = "filled"
                                    THEN Accumulate(@, side, qty, price_cents) ELSE @,
              !.resting = IF ~paper_mode /\ outcome = "resting" THEN order ELSE @,
              !.entry_ts[ticker] = IF outcome \in {"filled", "resting"} THEN t ELSE @,
              !.done = TRUE,
              !.last_action = IF outcome = "rejected" THEN "rejected" ELSE "placed"]
  IN  IF outcome = "resting" /\ chasing
      THEN wait_and_retry(b1, ticker, side, price_cents, qty, chase)
      ELSE b1

Return(b, why) == [b EXCEPT !.done = TRUE, !.last_action = why]

\* cancel_all_orders, after a fill of the resting order that came too late for
\* the positions fetched at the start of the cycle
CancelAll(b, ticker, late) ==
  [b EXCEPT
    !.positions[ticker] = IF late THEN Accumulate(@, b.resting.side, b.resting.count,
                                                   b.resting.price)
                          ELSE @,
    !.resting = NoOrder]

\* the decision of the cycle: the override, else the rules
Decision(override, rules) == IF override # "None" THEN override ELSE rules

\* the guards between the decision and the order; "" when none blocks
Blocked(b, ticker, my_pos, side, t, edge, price_cents) ==
  IF SameSideGuard(my_pos, side) THEN "same_side"
  ELSE IF TPGuard(ticker, b.took_profit) THEN "tp_guard"
  ELSE IF EdgeReentryGuard(b.edge_exit_ts, ticker, t, edge) THEN "edge_reentry"
  ELSE IF PriceGuard(side, price_cents) THEN "price_guard"
  ELSE IF MaxPosition - Abs(b.positions[ticker].position) <= 0 THEN "max_position"
  ELSE ""

EntryLogic(b, ticker, my_pos, q, secs_left, fair, t, override, rules, crossing, late, size, outcome, chase) ==
  LET action == Decision(override, rules)
      side == IF action = "BUY_YES" THEN "yes" ELSE "no"
      b1 == CancelAll(b, ticker, late)
      price_cents == EntryPrice(side, q, crossing)
      edge == EntrySideEdge(side, fair, q, secs_left)
      why == Blocked(b1, ticker, my_pos, side, t, edge, price_cents)
      qty == Min(size, MaxPosition - Abs(b1.positions[ticker].position))
  IN  IF ~time_guard(secs_left) THEN Return([b EXCEPT !.resting = NoOrder], "time_guard")
      ELSE IF ~q.ok THEN Return(b, "spread_guard")
      ELSE IF ~config.TRADING_ENABLED THEN Return(b, "dry_run")
      ELSE IF action = "HOLD" THEN Return(b, "hold")
      ELSE IF why # "" THEN Return(b1, why)
      ELSE [PlaceOrder(b1, ticker, side, price_cents, qty, t, ~crossing, outcome, chase)
              EXCEPT !.edge = edge]

\* ------------------------------------------------------------------------
\* _cycle as one step, and the exchange filling a resting order
\* ------------------------------------------------------------------------

\* the markets fetch_active_market can return: the current window or the
\* next, counted from the last market the bot knows of or was shown
NextTickers ==
  LET last == IF last_paper_ticker # 0 THEN last_paper_ticker ELSE cycle.ticker
  IN  IF last = 0 THEN {1} ELSE {last, last + 1} \cap Contracts

\* f with the entry of every contract from c on, other than keep, set to v
RECURSIVE Cleared(_, _, _, _)
Cleared(f, v, keep, c) ==
  IF c > MaxContracts THEN f
  ELSE Cleared(IF c = keep THEN f ELSE [f EXCEPT ![c] = v], v, keep, c + 1)

\* the bot after the rollover block of _cycle: on a new ticker the tracking
\* sets are cleared, and the positions of the expired contract are settled
Rollover(ticker) ==
  LET changed == last_paper_ticker # ticker
      clear == IF paper_mode THEN last_paper_ticker # 0 /\ changed ELSE changed
  IN  [positions |-> IF changed THEN Cleared(positions, NoPosition, ticker, 1)
                     ELSE positions,
       free_rolled |-> IF clear THEN {} ELSE free_rolled,
       took_profit |-> IF clear THEN {} ELSE took_profit,
       edge_exit_ts |-> IF clear THEN Cleared(edge_exit_ts, NoTs, 0, 1) ELSE edge_exit_ts,
       entry_ts |-> IF clear THEN Cleared(entry_ts, NoTs, 0, 1) ELSE entry_ts,
       resting |-> IF changed THEN NoOrder ELSE resting,
       hist |-> hist,
       fired |-> <<>>, sells |-> <<>>, buys |-> <<>>, edge |-> 0,
       done |-> FALSE, last_action |-> ""]

\* what the cycle saw: the rules whose condition held for the held position
Seen(b, ticker, my_pos, q, secs_left, fair, t) ==
  IF my_pos.position = 0 THEN {}
  ELSE Eligible(b, ticker, my_pos, q, secs_left, fair, t)
         \cup (IF HoldToExpiry(secs_left) THEN {"hold_to_expiry"} ELSE {})

Finish(b, ticker, my_pos, q, secs_left, fair, t, seen) ==
  /\ positions' = b.positions
  /\ free_rolled' = b.free_rolled
  /\ took_profit' = b.took_profit
  /\ edge_exit_ts' = b.edge_exit_ts
  /\ entry_ts' = b.entry_ts
  /\ resting' = b.resting
  /\ hist' = b.hist
  /\ last_paper_ticker' = ticker
  /\ now' = t
  /\ cycle' = [n |-> cycle.n + 1, ticker |-> ticker, secs_left |-> secs_left,
               held |-> my_pos.position,
               exits |-> seen,
               eligible |-> IF seen THEN Seen(Rollover(ticker), ticker, my_pos, q,
                                              secs_left, fair, t)
                            ELSE {},
               rolled |-> /\ seen
                          /\ ticker \in Rollover(ticker).free_rolled
                          /\ FreeRollAgain(my_pos, SellPrice(my_pos.position, q.best_bid,
                                                            q.best_ask), ticker, {}),
               fired |-> b.fired, sells |-> b.sells, buys |-> b.buys,
               edge |-> b.edge, last_action |-> b.last_action]
  /\ IF last_paper_ticker # ticker
     THEN contract_settlement_prices' = <<>> /\ contract_start_ts' = t
     ELSE UNCHANGED contractVars
  /\ UNCHANGED <<feedVars, venueVars, kalshi_connected, kalshi_ws, kalshi_subscribed_ob,
                 kalshi_orderbook, kalshi_ob_ts, config, callVars, paper_mode,
                 paperVars, orderVars, taskVars>>

\* the entry part of a cycle whose exit logic did not end it
Enter(b, ticker, my_pos, q, secs_left, fair, t) ==
  \E momentum \in Momenta, rules \in RuleDecisions, signal \in Signals,
     projection_wins \in (IF secs_left < config.ANCHOR_SECONDS_THRESHOLD
                             /\ my_pos.position # 0 /\ fair # NoFair
                          THEN BOOLEAN ELSE {FALSE}),
     late \in (IF ~paper_mode /\ b.resting.ticker = ticker THEN BOOLEAN ELSE {FALSE}) :
    LET override == alpha_override(my_pos, q, secs_left, fair, signal, momentum,
                                   projection_wins)
        crossing == extreme_momentum(momentum) \/ override # "None"
        try == EntryLogic(b, ticker, my_pos, q, secs_left, fair, t, override, rules,
                          crossing, late, 1, "rejected", NoChase)
    IN  IF try.buys = <<>>
        THEN Finish(try, ticker, my_pos, q, secs_left, fair, t, TRUE)
        ELSE \E size \in {MaxOrder}, outcome \in PlaceOutcomes :
               \E chase \in (IF outcome = "resting" /\ ~crossing THEN Chases ELSE {NoChase}) :
                 Finish(EntryLogic(b, ticker, my_pos, q, secs_left, fair, t, override,
                                   rules, crossing, late, size, outcome, chase),
                        ticker, my_pos, q, secs_left, fair, t, TRUE)

\* the daily loss guard ends the cycle before the order book is fetched; the
\* first cycle, also the first after a paper reset, takes its own balance as
\* the starting balance and cannot trip
DailyLossGuard(ticker, secs_left, t) ==
  /\ cycle.n > 0 /\ last_paper_ticker # 0
  /\ Finish(Return(Rollover(ticker), "daily_loss"), ticker,
            Rollover(ticker).positions[ticker],
            spread_guard([yes |-> <<>>, no |-> <<>>]), secs_left, NoFair, t, FALSE)

Cycle ==
  /\ cycle.n < MaxCycles
  /\ \E ticker \in NextTickers, dt \in (IF cycle.n = 0 THEN {0} ELSE Ticks) :
       \E secs_left \in (IF last_paper_ticker \in {0, ticker} THEN SecsLeft ELSE {400}) :
         \/ DailyLossGuard(ticker, secs_left, now + dt)
         \/ \E orderbook \in OrderBooks, fair \in FairValues \cup {NoFair} :
              LET t == now + dt
                  b0 == Rollover(ticker)
                  my_pos == b0.positions[ticker]
                  q == spread_guard(orderbook)
                  i1 == FirstRule(b0, ticker, my_pos, q, secs_left, fair, t)
              IN  \E o1 \in (IF i1 = 0 THEN {"none"} ELSE CloseOutcomes) :
                    \E o2 \in (IF SecondRule(b0, ticker, my_pos, q, secs_left, fair, t, o1) = 0
                               THEN {"none"} ELSE CloseOutcomes) :
                      LET b1 == ExitLogic(b0, ticker, my_pos, q, secs_left, fair, t, o1, o2)
                      IN  IF b1.done
                          THEN Finish(b1, ticker, my_pos, q, secs_left, fair, t, TRUE)
                          ELSE Enter(b1, ticker, my_pos, q, secs_left, fair, t)

\* the exchange fills the buy order that a cycle left resting (live mode)
RestingFills ==
  /\ ~paper_mode
  /\ resting # NoOrder
  /\ positions' = [positions EXCEPT ![resting.ticker] =
                     Accumulate(@, resting.side, resting.count, resting.price)]
  /\ resting' = NoOrder
  /\ UNCHANGED <<feedVars, venueVars, kalshiVars, contractVars, config, callVars,
                 paper_mode, free_rolled, took_profit, edge_exit_ts, entry_ts,
                 last_paper_ticker, cycle, hist, paperVars, orderVars, taskVars>>

InitCycle ==
  /\ prices = [v \in Venues |-> 0]
  /\ exchange_connected = [v \in Venues |-> FALSE]
  /\ weighted_price = Zero
  /\ lead_lag_spread = Zero
  /\ fresh = [v \in Venues |-> FALSE]
  /\ running = FALSE
  /\ pc = [f \in Feeds |-> "none"]
  /\ delay = [f \in Feeds |-> RECONNECT_BASE_DELAY]
  /\ stop_pc = "idle"
  /\ env = [fails |-> 0, ticks |-> 0]
  /\ failures = [f \in Feeds |-> 0]
  /\ kalshi_connected = FALSE
  /\ kalshi_ws = "None"
  /\ kalshi_subscribed_ob = {}
  /\ kalshi_orderbook = <<>>
  /\ kalshi_ob_ts = <<>>
  /\ now = Epoch
  /\ contract_settlement_prices = <<>>
  /\ contract_start_ts = 0
  /\ config \in {ConfigDefaults @@ c : c \in TraderConfigs}
  /\ args = [op |-> "none"]
  /\ ret = [set |-> FALSE]
  /\ paper_mode \in BOOLEAN
  /\ \E first \in StartPositions : BotFields(first)

NextCycle == Cycle \/ RestingFills

SpecCycle == InitCycle /\ [][NextCycle]_vars


\* ------------------------------------------------------------------------
\* Claims about the decision cycle
\* ------------------------------------------------------------------------

Ran == cycle.n > 0

Trading == config.TRADING_ENABLED

\* C14: in a single decision cycle at most one close (sell) order is submitted,
\* on every execution path, and a cycle that submits a sell submits no entry
\* order.
C14_OneExitPerCycle ==
  /\ Len(cycle.sells) <= 1
  /\ cycle.sells # <<>> => cycle.buys = <<>>

\* the priority order of the exit rules as the specification states it
Priority ==
  <<"hold_to_expiry", "stop_loss", "edge_exit", "hit_and_run", "profit_take", "free_roll">>

FirstByPriority(eligible) ==
  LET idx == {i \in 1..Len(Priority) : Priority[i] \in eligible}
  IN  Priority[CHOOSE i \in idx : \A j \in idx : i <= j]

Fired == {cycle.fired[i] : i \in 1..Len(cycle.fired)}

C16_HoldToExpiryNoSell ==
  (Ran /\ cycle.held # 0 /\ cycle.secs_left < config.HOLD_EXPIRY_SECS) => cycle.sells = <<>>

C16_Witness ==
  /\ Ran /\ Trading
  /\ cycle.held # 0
  /\ cycle.secs_left < config.HOLD_EXPIRY_SECS
  /\ {"stop_loss", "edge_exit"} \subseteq cycle.eligible
  /\ cycle.last_action = "hold_to_expiry"
  /\ cycle.sells = <<>>

C20_NeverOpposingBuy ==
  \A i \in 1..Len(cycle.buys) : ~Opposes(cycle.buys[i].side, cycle.buys[i].held)

\* ------------------------------------------------------------------------
\* The quiet state of every part of the program that a specification of one
\* call leaves alone
\* ------------------------------------------------------------------------

QuietInit ==
  /\ MonitorInit
  /\ env = [fails |-> 0, ticks |-> 0]
  /\ ret = [set |-> FALSE]
  /\ BotInit

\* ------------------------------------------------------------------------
\* _wait_and_retry: the limit price of retry 1, 2 and 3 (trader.py, the same
\* lines in the paper and in the live branch)
\* ------------------------------------------------------------------------

\* the best bid and ask of the side bought, from the yes-side bid and ask
OwnBid(side, cur_bid, cur_ask) == IF side = "yes" THEN cur_bid ELSE 100 - cur_ask

OwnAsk(side, cur_bid, cur_ask) == IF side = "yes" THEN cur_ask ELSE 100 - cur_bid

TwoThirds(lo, hi) == lo + ((hi - lo) * 2) \div 3

\* new_price of the given attempt, clamped to 1..99
ChasePrice(side, cur_bid, cur_ask, attempt) ==
  LET lo == OwnBid(side, cur_bid, cur_ask)
      hi == OwnAsk(side, cur_bid, cur_ask)
      new_price == IF attempt = 1 THEN (lo + hi + 1) \div 2
                   ELSE IF attempt = 2 THEN TwoThirds(lo, hi)
                   ELSE hi
  IN  Max(1, Min(99, new_price))

\* best bids the chase can find (0 = no yes orders) and the widest spread drawn
ChaseBids == {0, 1, 30, 50, 84, 98}

MaxWidth == 6

InitChasePrice ==
  /\ QuietInit
  /\ config = ConfigDefaults
  /\ \E sd \in {"yes", "no"}, b \in ChaseBids, w \in 1..MaxWidth :
       /\ b + w <= 100
       /\ args = [op |-> "chase_price", side |-> sd, cur_bid |-> b, cur_ask |-> b + w]

CallChasePrice ==
  /\ args.op = "chase_price"
  /\ ~ret.set
  /\ ret' = [set |-> TRUE,
             val |-> [k \in 1..max_retries |->
                        ChasePrice(args.side, args.cur_bid, args.cur_ask, k)]]
  /\ UNCHANGED <<feedVars, venueVars, kalshiVars, contractVars, config, traderVars,
                 paperVars, orderVars, taskVars, args>>

NextChasePrice == CallChasePrice

SpecChasePrice == InitChasePrice /\ [][NextChasePrice]_vars

ChasePriced == args.op = "chase_price" /\ ret.set

\* C29: with the book held fixed, the limit prices of chase attempts 1, 2 and
\* 3 are non-decreasing from attempt to attempt and never beyond the far side
\* of the spread, for every spread width and either side.
C29_ChaseEscalates ==
  ChasePriced =>
    /\ ret.val[1] <= ret.val[2]
    /\ ret.val[2] <= ret.val[3]
    /\ ret.val[3] <= OwnAsk(args.side, args.cur_bid, args.cur_ask)

\* ------------------------------------------------------------------------
\* _request: one REST call to the broker (trader.py).  request.tries holds, per
\* HTTP attempt, its outcome and the client it went through; request.accepted
\* counts the requests of this call the broker received and carried out.
\* ------------------------------------------------------------------------

Methods == {"GET", "POST", "DELETE"}

\* what one self.http.request + raise_for_status can end in: a response, an
\* HTTPStatusError, one of the three caught httpx errors, or any other error
Outcomes == {"ok", "status_error", "connect_timeout", "read_timeout", "connect_error",
             "other_error"}

RetryableAny(outcome) == outcome # "ok"

\* except (httpx.ConnectTimeout, httpx.ReadTimeout, httpx.ConnectError)
Retryable(outcome) == outcome \in {"connect_timeout", "read_timeout", "connect_error"}

\* a request can have reached the broker when the answer was read, and when
\* the failure came after the request was written
MayBeReceived(outcome) == outcome \in {"ok", "read_timeout", "other_error"}

MustBeReceived(outcome) == outcome = "ok"

\* _ensure_client: a new client when there is none
ensure_client(r) ==
  IF r.http = "None" THEN [r EXCEPT !.http = "open", !.clients = @ + 1] ELSE r

InitRequest ==
  /\ QuietInit
  /\ config = ConfigDefaults
  /\ args = [op |-> "request"]

\* _get, _post, _delete: the call starts with the client an earlier call left
BeginRequest ==
  /\ args.op = "request"
  /\ request.pc = "idle"
  /\ \E mt \in Methods, h \in {"None", "open"} :
       request' = [IdleRequest EXCEPT !.pc = "sending", !.method = mt, !.http = h,
                                      !.clients = IF h = "open" THEN 1 ELSE 0]
  /\ UNCHANGED <<feedVars, venueVars, kalshiVars, contractVars, config, callVars,
                 traderVars, paperVars, entry, taskVars>>

\* where the call stands after an attempt with the given outcome
AfterAttempt(attempt, outcome) ==
  IF outcome = "ok" THEN "returned"
  ELSE IF Retryable(outcome) /\ attempt < 2 THEN "sleeping"
  ELSE "raised"

\* one pass of the loop body up to the sleep
Attempt ==
  /\ request.pc = "sending"
  /\ \E outcome \in Outcomes, received \in BOOLEAN :
       /\ received => MayBeReceived(outcome)
       /\ MustBeReceived(outcome) => received
       /\ LET r == ensure_client(request)
              attempt == Len(request.tries)
          IN  request' = [r EXCEPT
                !.tries = Append(@, [outcome |-> outcome, client |-> r.clients]),
                !.accepted = IF received THEN @ + 1 ELSE @,
                !.pc = AfterAttempt(attempt, outcome)]
  /\ UNCHANGED <<feedVars, venueVars, kalshiVars, contractVars, config, callVars,
                 traderVars, paperVars, entry, taskVars>>

\* wait = 2 ** attempt, asyncio.sleep(wait), aclose and self.http = None
Retry ==
  /\ request.pc = "sleeping"
  /\ request' = [request EXCEPT !.slept = Append(@, 2 ^ (Len(request.tries) - 1)),
                                !.http = "None",
                                !.pc = "sending"]
  /\ UNCHANGED <<feedVars, venueVars, kalshiVars, contractVars, config, callVars,
                 traderVars, paperVars, entry, taskVars>>

NextRequest == BeginRequest \/ Attempt \/ Retry

SpecRequest == InitRequest /\ [][NextRequest]_vars

ConnectionLevel == {"connect_timeout", "read_timeout", "connect_error"}

IsPrefix(s, t) == Len(s) <= Len(t) /\ \A i \in 1..Len(s) : s[i] = t[i]

\* C25: a broker REST call makes at most 3 HTTP attempts; an attempt is
\* followed by another only after a connect timeout, read timeout or connect
\* error, with a sleep of 1s then 2s and a fresh client; an HTTP error status
\* ends the call at once, without a retry; after a third connection-level
\* failure the error is raised to the caller.
C25_RequestRetries ==
  LET tries == request.tries
      n == Len(tries)
  IN  /\ n <= 3
      /\ \A i \in 1..(n - 1) : /\ tries[i].outcome \in ConnectionLevel
                               /\ tries[i + 1].client # tries[i].client
      /\ IsPrefix(request.slept, <<1, 2>>)
      /\ Len(request.slept) = IF request.pc \in {"idle", "sending"} THEN n ELSE n - 1
      /\ \A i \in 1..n : tries[i].outcome = "status_error" =>
                           i = n /\ request.pc = "raised"
      /\ (n = 3 /\ tries[3].outcome \in ConnectionLevel) => request.pc = "raised"
      /\ (request.pc = "raised" /\ tries[n].outcome \in ConnectionLevel) => n = 3

C25_Witness ==
  /\ request.pc = "raised"
  /\ Len(request.tries) = 3
  /\ request.tries[3].outcome = "read_timeout"
  /\ request.slept = <<1, 2>>

\* C26: one place_order or close_position call (one POST through _request)
\* results in at most one order accepted by the broker, also when the POST is
\* retried after a read timeout on a request the broker had already received.
C26_OneOrderPerCall == request.method = "POST" => request.accepted <= 1

\* ------------------------------------------------------------------------
\* The paper ledger: _paper_place_order, _paper_close_position, _do_settle
\* and reset_paper_trading (trader.py).  paper_balance is in cents; a stored
\* position keeps its average price and its exposure as exact fractions.
\* ------------------------------------------------------------------------

Whole(n) == <<n, 1>>

\* ticker in self._paper_positions
Stored(t) == paper_positions[t].side # "none"

ReducedExposureAtFill(pos, avg_price, n) ==
  RatSub(pos.market_exposure_cents, Whole(avg_price * n))

\* pos["market_exposure_cents"] -= pos["avg_price_cents"] * n
ReducedExposure(pos, avg_price, n) ==
  Norm(RatSub(pos.market_exposure_cents, RatMul(pos.avg_price_cents, Whole(n))))

\* the position after n contracts left it; deleted at quantity <= 0
PaperReduce(pos, avg_price, n) ==
  IF pos.quantity - n <= 0 THEN NoPaper
  ELSE [pos EXCEPT !.quantity = @ - n,
                   !.market_exposure_cents = ReducedExposure(pos, avg_price, n)]

\* the position after a buy of filled_qty contracts at avg_price
PaperAdd(pos, side, filled_qty, avg_price) ==
  IF pos.side = "none"
  THEN [side |-> side, quantity |-> filled_qty, avg_price_cents |-> Whole(avg_price),
        market_exposure_cents |-> Whole(avg_price * filled_qty)]
  ELSE IF pos.side = side
  THEN LET old_total == RatMul(pos.avg_price_cents, Whole(pos.quantity))
           new_total == Whole(avg_price * filled_qty)
           quantity  == pos.quantity + filled_qty
       IN  [pos EXCEPT !.quantity = quantity,
                       !.avg_price_cents = RatDiv(RatAdd(old_total, new_total),
                                                  Whole(quantity)),
                       !.market_exposure_cents =
                          RatAdd(@, Whole(avg_price * filled_qty))]
  ELSE PaperReduce(pos, avg_price, Min(filled_qty, pos.quantity))

\* no balance check: the fill of the book is bought whole
Uncapped(balance, filled_qty, avg_price) == filled_qty

\* filled_qty after the balance check: int(balance * 100 / avg_price) when
\* the cost exceeds the balance
Affordable(balance, filled_qty, avg_price) ==
  IF avg_price * filled_qty > balance
  THEN (IF avg_price > 0 THEN balance \div avg_price ELSE 0)
  ELSE filled_qty

\* _paper_place_order: the order returned (status "none" for None), the
\* balance and the position afterwards.  ob is <<>> for no book, else <<book>>
paper_place_order(balance, pos, ob, side, price_cents, quantity, fill_fraction) ==
  LET unchanged == [balance |-> balance, pos |-> pos]
      f == simulate_fill(ob[1], "buy", side, price_cents, quantity, fill_fraction)
      filled_qty == Affordable(balance, f.filled, f.avg)
  IN  IF ob = <<>>
      THEN unchanged @@ [status |-> "none", filled_count |-> 0, remaining_count |-> 0]
      ELSE IF f.filled = 0
      THEN unchanged @@ [status |-> "resting", filled_count |-> 0,
                         remaining_count |-> quantity]
      ELSE IF filled_qty <= 0
      THEN unchanged @@ [status |-> "none", filled_count |-> 0, remaining_count |-> 0]
      ELSE [balance |-> balance - f.avg * filled_qty,
            pos |-> PaperAdd(pos, side, filled_qty, f.avg),
            status |-> IF quantity - filled_qty = 0 THEN "filled" ELSE "partial",
            filled_count |-> filled_qty,
            remaining_count |-> quantity - filled_qty]

\* _paper_close_position
paper_close_position(balance, pos, ob, side, price_cents, quantity, fill_fraction) ==
  LET unchanged == [balance |-> balance, pos |-> pos]
      want_qty == Min(quantity, pos.quantity)
      f == IF ob # <<>>
           THEN simulate_fill(ob[1], "sell", side, price_cents, want_qty, fill_fraction)
           ELSE [filled |-> want_qty, avg |-> price_cents, fills |-> <<>>]
  IN  IF pos.side = "none" \/ pos.quantity <= 0
      THEN unchanged @@ [status |-> "none", filled_count |-> 0, remaining_count |-> 0]
      ELSE IF f.filled = 0
      THEN unchanged @@ [status |-> "none", filled_count |-> 0, remaining_count |-> 0]
      ELSE [balance |-> balance + f.avg * f.filled,
            pos |-> PaperReduce(pos, f.avg, f.filled),
            status |-> IF want_qty - f.filled = 0 THEN "filled" ELSE "partial",
            filled_count |-> f.filled,
            remaining_count |-> want_qty - f.filled]

\* the book the cycle stored in _paper_orderbook before the order (<<>> when
\* it stored none), limit prices, the largest order and the longest run
PaperBooks == {<<>>, <<[yes |-> <<<<48, 2>>, <<50, 1>>>>, no |-> <<<<45, 2>>, <<47, 1>>>>]>>}

PaperLimits == {45, 50, 55}

MaxPaperQty == 3

MaxPaperOps == 3

\* balances in cents read back by _restore_paper_state
SavedBalances == {120, PAPER_STARTING_BALANCE * 100}

InitPaper ==
  /\ MonitorInit
  /\ env = [fails |-> 0, ticks |-> 0]
  /\ ret = [set |-> FALSE]
  /\ config = ConfigDefaults
  /\ args = [op |-> "paper", n |-> 0]
  /\ paper_mode = TRUE
  /\ \E balance \in SavedBalances : PaperFields(balance)
  /\ BotRest(NoPosition)

PaperStep(op, t, r) ==
  /\ paper_balance' = r.balance
  /\ paper_positions' = [paper_positions EXCEPT ![t] = r.pos]
  /\ ret' = [set |-> TRUE, op |-> op, status |-> r.status,
             filled_count |-> r.filled_count]
  /\ args' = [args EXCEPT !.n = @ + 1]
  /\ UNCHANGED <<feedVars, venueVars, kalshiVars, contractVars, config, traderVars,
                 orderVars, taskVars>>

PaperBuy ==
  /\ args.op = "paper" /\ args.n < MaxPaperOps
  /\ \E t \in Contracts, side \in {"yes", "no"}, price_cents \in PaperLimits,
        quantity \in 1..MaxPaperQty, ob \in PaperBooks :
       PaperStep("buy", t,
                 paper_place_order(paper_balance, paper_positions[t], ob, side,
                                   price_cents, quantity, config.PAPER_FILL_FRACTION))

\* the cycle closes the side it holds
PaperClose ==
  /\ args.op = "paper" /\ args.n < MaxPaperOps
  /\ \E t \in Contracts, price_cents \in PaperLimits, quantity \in 1..MaxPaperQty,
        ob \in PaperBooks :
       PaperStep("sell", t,
                 paper_close_position(paper_balance, paper_positions[t], ob,
                                      paper_positions[t].side, price_cents, quantity,
                                      config.PAPER_FILL_FRACTION))

\* _settle_paper_positions(new_ticker) and _do_settle: every stored position
\* of another ticker is paid 0 or 100 cents a contract and deleted
Settle ==
  /\ args.op = "paper" /\ args.n < MaxPaperOps
  /\ \E new_ticker \in Contracts, settle_price \in [Contracts -> {0, 100}] :
       LET expired == {t \in Contracts : Stored(t) /\ t # new_ticker}
       IN  /\ expired # {}
           /\ paper_balance' = paper_balance
                  + SumOver(expired, [t \in Contracts |->
                                        settle_price[t] * paper_positions[t].quantity])
           /\ paper_positions' = [t \in Contracts |->
                                    IF t \in expired THEN NoPaper ELSE paper_positions[t]]
  /\ ret' = [set |-> TRUE, op |-> "settle", status |-> "none", filled_count |-> 0]
  /\ args' = [args EXCEPT !.n = @ + 1]
  /\ UNCHANGED <<feedVars, venueVars, kalshiVars, contractVars, config, traderVars,
                 orderVars, taskVars>>

NextPaper == PaperBuy \/ PaperClose \/ Settle

SpecPaper == InitPaper /\ [][NextPaper]_vars

SizingDefaults ==
  [ORDER_SIZE_PCT |-> 5, MAX_POSITION_PCT |-> 15, MAX_TOTAL_EXPOSURE_PCT |-> 30,
   MAX_DAILY_LOSS_PCT |-> 10]

\* total_exposure >= balance * MAX_TOTAL_EXPOSURE_PCT / 100
ExposureGuard(balance, total_exposure) ==
  total_exposure * 100 >= balance * config.MAX_TOTAL_EXPOSURE_PCT

\* max(1, int(budget / (price_cents / 100.0))) with budget = balance * pct / 100
Contracts_for(balance, pct, price_cents) ==
  IF price_cents > 0 THEN Max(1, (balance * pct) \div (100 * price_cents)) ELSE 1

\* the quantity of the entry order, 0 when a guard returns before place_order
EntrySize(balance, total_exposure, price_cents, current_qty) ==
  LET max_position == Contracts_for(balance, config.MAX_POSITION_PCT, price_cents)
      order_size == Contracts_for(balance, config.ORDER_SIZE_PCT, price_cents)
      remaining_capacity == max_position - current_qty
  IN  IF ExposureGuard(balance, total_exposure) THEN 0
      ELSE IF remaining_capacity <= 0 THEN 0
      ELSE Min(order_size, remaining_capacity)

\* balances in cents, the cost of the positions in other contracts, entry
\* prices, and the largest position already held in the active contract
Balances == {100, 2000, PAPER_STARTING_BALANCE * 100}

OtherExposures == {0, 500, 2900}

EntryPrices == {5, 50, 85}

MaxHeld == 3

InitSize ==
  /\ QuietInit
  /\ config = ConfigDefaults @@ SizingDefaults
  /\ \E balance \in Balances, other \in OtherExposures, price_cents \in EntryPrices,
        current_qty \in 0..MaxHeld :
       args = [op |-> "size", balance |-> balance, price_cents |-> price_cents,
               current_qty |-> current_qty,
               total_exposure |-> other + current_qty * price_cents]

\* the guards and the sizing, and the exposure once the order has filled
CallEntrySize ==
  /\ args.op = "size"
  /\ ~ret.set
  /\ LET qty == EntrySize(args.balance, args.total_exposure, args.price_cents,
                          args.current_qty)
     IN  ret' = [set |-> TRUE, qty |-> qty,
                 exposure |-> args.total_exposure + qty * args.price_cents]
  /\ UNCHANGED <<feedVars, venueVars, kalshiVars, contractVars, config, traderVars,
                 paperVars, orderVars, taskVars, args>>

NextSize == CallEntrySize

SpecSize == InitSize /\ [][NextSize]_vars

\* C22: an entry is refused or sized so that the total open exposure after it
\* does not exceed MAX_TOTAL_EXPOSURE_PCT percent of the balance the cycle
\* used.
C22_ExposureWithinCap ==
  (args.op = "size" /\ ret.set /\ ret.qty > 0) =>
    ret.exposure * 100 <= args.balance * config.MAX_TOTAL_EXPOSURE_PCT

\* ------------------------------------------------------------------------
\* One entry: the pricing, the price guard and place_order of _cycle, then
\* _wait_and_retry (trader.py).  entry.orders lists the buy orders sent, each
\* with the quotes it was priced from, the quantity still unfilled and the
\* quantity still open in earlier orders at the moment it was sent; entry.open
\* is what rests of the order the chase follows, entry.stray what rests of
\* orders it no longer follows, entry.filled what the orders have bought.
\* ------------------------------------------------------------------------

\* books at the exchange: quotes of 50/51, 10/20, 80/90 and 48/55
ChaseBooks ==
  {[yes |-> <<<<50, 1>>>>, no |-> <<<<49, 1>>>>],
   [yes |-> <<<<10, 1>>>>, no |-> <<<<80, 1>>>>],
   [yes |-> <<<<80, 1>>>>, no |-> <<<<10, 1>>>>],
   [yes |-> <<<<48, 1>>>>, no |-> <<<<45, 3>>>>]}

\* largest entry order
MaxChaseQty == 2

\* the ticker of the entry
EntryTicker == 1

InitChase ==
  /\ MonitorInit
  /\ env = [fails |-> 0, ticks |-> 0]
  /\ ret = [set |-> FALSE]
  /\ args = [op |-> "entry"]
  /\ config = ConfigDefaults @@ [TraderDefaults EXCEPT !.TRADING_ENABLED = TRUE]
  /\ paper_mode \in BOOLEAN
  /\ BotFields(NoPosition)

Sent(e, price_cents, count, retry, q) ==
  [price |-> price_cents, count |-> count, retry |-> retry,
   bid |-> q.best_bid, ask |-> q.best_ask,
   unfilled |-> e.qty - e.filled, others |-> e.open + e.stray]

\* the end of the entry, for good
Ended(e, why) == [e EXCEPT !.pc = "done", !.end = why]

\* the paper ledger after an order, and the order
PaperOrder(ob, side, price_cents, quantity) ==
  paper_place_order(paper_balance, paper_positions[EntryTicker], ob, side, price_cents,
                    quantity, config.PAPER_FILL_FRACTION)

Ledger(r) ==
  /\ paper_balance' = r.balance
  /\ paper_positions' = [paper_positions EXCEPT ![EntryTicker] = r.pos]

\* paper mode, from the pricing to the first line of _wait_and_retry
PlacePaper(e, price_cents, q) ==
  LET r == PaperOrder(<<e.book>>, e.side, price_cents, e.qty)
      e1 == [e EXCEPT !.orders = Append(@, Sent(e, price_cents, e.qty, FALSE, q)),
                      !.filled = r.filled_count,
                      !.remaining = r.remaining_count]
  IN  /\ Ledger(r)
      /\ entry' = IF r.status = "none" THEN Ended(e, "rejected")
                  ELSE IF e.aggressive THEN Ended(e1, "not_chased")
                  ELSE IF r.remaining_count <= 0 THEN Ended(e1, "filled")
                  ELSE [e1 EXCEPT !.pc = "chasing"]

\* live mode: the exchange rejects the order, or takes it and fills f of it
PlaceLive(e, price_cents, q) ==
  /\ UNCHANGED paperVars
  /\ \E accepted \in BOOLEAN, f \in 0..e.qty :
       LET e1 == [e EXCEPT !.orders = Append(@, Sent(e, price_cents, e.qty, FALSE, q)),
                           !.filled = f,
                           !.open = e.qty - f]
       IN  /\ ~accepted => f = 0
           /\ entry' = IF ~accepted THEN Ended(e, "rejected")
                        ELSE IF e.aggressive THEN Ended(e1, "not_chased")
                        ELSE [e1 EXCEPT !.pc = "chasing"]

\* _cycle from the entry pricing to the call of _wait_and_retry
PlaceEntry ==
  /\ entry.pc = "idle"
  /\ \E side \in {"yes", "no"}, aggressive \in BOOLEAN, qty \in 1..MaxChaseQty,
        book \in ChaseBooks :
       LET q == spread_guard(book)
           price_cents == EntryPrice(side, q, aggressive)
           e == [entry EXCEPT !.side = side, !.aggressive = aggressive, !.qty = qty,
                              !.book = book]
       IN  /\ q.ok
           /\ IF PriceGuard(side, price_cents)
              THEN entry' = Ended(e, "price_guard") /\ UNCHANGED paperVars
              ELSE IF paper_mode THEN PlacePaper(e, price_cents, q)
              ELSE PlaceLive(e, price_cents, q)
  /\ UNCHANGED <<feedVars, venueVars, kalshiVars, contractVars, config, callVars,
                 traderVars, request, taskVars>>

\* the quotes the retry is priced from: 0 and 100 without a book
Quotes(ob) ==
  IF ob = <<>> THEN [best_bid |-> 0, best_ask |-> 100]
  ELSE [best_bid |-> spread_guard(ob[1]).best_bid, best_ask |-> spread_guard(ob[1]).best_ask]

\* one pass of the paper loop
ChasePaper(e, attempt, ob) ==
  LET q == Quotes(ob)
      new_price == ChasePrice(e.side, q.best_bid, q.best_ask, attempt)
      r == PaperOrder(ob, e.side, new_price, e.remaining)
      e1 == [e EXCEPT !.attempt = attempt,
                      !.orders = Append(@, Sent(e, new_price, e.remaining, TRUE, q)),
                      !.filled = @ + r.filled_count,
                      !.remaining = r.remaining_count]
  IN  /\ Ledger(r)
      /\ entry' = IF r.status = "none" THEN Ended([e EXCEPT !.attempt = attempt],
                                                  "rejected")
                  ELSE IF r.remaining_count <= 0 THEN Ended(e1, "filled")
                  ELSE IF attempt = max_retries THEN Ended(e1, "exhausted")
                  ELSE e1

\* one pass of the live loop.  g contracts fill during the sleep, the status
\* is read, k more fill before the DELETE arrives, the DELETE cancels what
\* is left or fails, the retry is rejected or accepted and f of it fill
ChaseLive(e, attempt, ob) ==
  /\ UNCHANGED paperVars
  /\ \E g \in 0..e.open, get_ok \in BOOLEAN :
       LET remaining == e.open - g
           e0 == [e EXCEPT !.attempt = attempt, !.filled = @ + g, !.open = remaining,
                           !.remaining = remaining]
       IN  IF ~get_ok THEN entry' = Ended([e0 EXCEPT !.remaining = e.remaining], "error")
           ELSE IF remaining <= 0 THEN entry' = Ended(e0, "filled_or_cancelled")
           ELSE \E k \in 0..remaining, cancelled \in BOOLEAN, accepted \in BOOLEAN,
                   f \in 0..remaining :
                  LET left == remaining - k
                      e1 == [e0 EXCEPT !.filled = @ + k,
                                       !.open = 0,
                                       !.stray = @ + (IF cancelled THEN 0 ELSE left)]
                      q == Quotes(ob)
                      new_price == ChasePrice(e.side, q.best_bid, q.best_ask, attempt)
                      e2 == [e1 EXCEPT
                              !.orders = Append(@, Sent(e1, new_price, remaining, TRUE, q)),
                              !.filled = @ + f,
                              !.open = remaining - f]
                  IN  /\ cancelled => left > 0
                      /\ ~accepted => f = 0
                      /\ entry' = IF ~accepted THEN Ended(e1, "rejected")
                                  ELSE IF attempt = max_retries THEN Ended(e2, "exhausted")
                                  ELSE e2

\* _wait_and_retry: the sleep and one attempt
ChaseAttempt ==
  /\ entry.pc = "chasing"
  /\ entry.attempt < max_retries
  /\ IF paper_mode
     THEN \E ob \in {<<>>, <<entry.book>>} : ChasePaper(entry, entry.attempt + 1, ob)
     ELSE ChaseLive(entry, entry.attempt + 1, <<entry.book>>)
  /\ UNCHANGED <<feedVars, venueVars, kalshiVars, contractVars, config, callVars,
                 traderVars, request, taskVars>>

\* the exchange fills a contract of an order that still rests there
BrokerFill ==
  /\ ~paper_mode
  /\ \/ /\ entry.stray > 0
        /\ entry' = [entry EXCEPT !.stray = @ - 1, !.filled = @ + 1]
     \/ /\ entry.pc = "done" /\ entry.open > 0
        /\ entry' = [entry EXCEPT !.open = @ - 1, !.filled = @ + 1]
  /\ UNCHANGED <<feedVars, venueVars, kalshiVars, contractVars, config, callVars,
                 traderVars, paperVars, request, taskVars>>

NextChase == PlaceEntry \/ ChaseAttempt \/ BrokerFill

SpecChase == InitChase /\ [][NextChase]_vars

OrdersSent == {entry.orders[i] : i \in 1..Len(entry.orders)}

RetriesSent == {o \in OrdersSent : o.retry}

\* C21: every buy order placed, on either side, the initial entry or a chase
\* retry, has a limit price for the side bought between MIN_CONTRACT_PRICE
\* and MAX_CONTRACT_PRICE.
C21_PriceWithinBand ==
  \A o \in OrdersSent :
    config.MIN_CONTRACT_PRICE <= o.price /\ o.price <= config.MAX_CONTRACT_PRICE

\* C27: the chase places at most 3 retry orders, one at a time, each for the
\* still-unfilled remainder, none once the order is filled, and the quantity
\* filled by the initial order and the retries never exceeds the quantity
\* requested.
C27_ChaseWithinRequest ==
  /\ Cardinality({i \in 1..Len(entry.orders) : entry.orders[i].retry}) <= 3
  /\ \A o \in RetriesSent : o.others = 0 /\ o.count = o.unfilled /\ o.count > 0
  /\ entry.filled <= entry.qty

\* C28: an entry order priced at the far side of the spread (the ask for YES,
\* 100 minus the bid for NO) is never followed by a chase retry.
C28_CrossingNotChased ==
  (entry.orders # <<>>
     /\ entry.orders[1].price >= OwnAsk(entry.side, entry.orders[1].bid,
                                        entry.orders[1].ask))
    => RetriesSent = {}

\* ------------------------------------------------------------------------
\* The daily-loss breaker of the decision cycle (SpecCycle)
\* ------------------------------------------------------------------------

\* the last cycle returned at the daily loss guard
Tripped == Ran /\ cycle.last_action = "daily_loss"

\* C23: while the daily-loss breaker is tripped no entry order is placed, and
\* the exit rules are still evaluated for an open position in the same cycle.
C23_BreakerKeepsExits ==
  Tripped => /\ cycle.buys = <<>>
             /\ cycle.held # 0 => cycle.exits

\* ------------------------------------------------------------------------
\* The decision cycle together with the paper reset of the dashboard
\* (POST /api/paper/reset) and the settlement-price samples of the feeds
\* ------------------------------------------------------------------------

\* reset_paper_trading: balance, positions, last ticker and starting balance
\* are reset; the tracking sets of the bot are not touched
ResetPaper ==
  /\ paper_mode
  /\ last_paper_ticker # 0
  /\ paper_balance' = PAPER_STARTING_BALANCE * 100
  /\ paper_positions' = [t \in Contracts |-> NoPaper]
  /\ positions' = [t \in Contracts |-> NoPosition]
  /\ last_paper_ticker' = 0
  /\ UNCHANGED <<feedVars, venueVars, kalshiVars, contractVars, config, callVars,
                 paper_mode, free_rolled, took_profit, edge_exit_ts, entry_ts,
                 resting, cycle, hist, orderVars, taskVars>>

\* a tick of a settlement venue is recorded for the contract window
SettlementTick ==
  /\ contract_settlement_prices = <<>>
  /\ contract_settlement_prices' =
       record_contract_settlement(contract_settlement_prices, now, 1)
  /\ UNCHANGED <<feedVars, venueVars, kalshiVars, contract_start_ts, config, callVars,
                 traderVars, paperVars, orderVars, taskVars>>

InitReset ==
  /\ InitCycle
  /\ config.TRADING_ENABLED
  /\ config.HIT_RUN_PCT = 0

NextReset == Cycle \/ RestingFills \/ ResetPaper \/ SettlementTick

SpecReset == InitReset /\ [][NextReset]_vars

\* C30: in the cycle that first observes a new active contract ticker, in
\* paper and in live mode, the per-contract execution state (entry
\* timestamps, edge-exit timestamps, free-rolled and took-profit flags) and
\* the settlement-price history of the contract window are cleared: after
\* the cycle nothing of another contract is left in them.  The ticker is new
\* when it differs from the ticker of the cycle before, and from the ticker
\* restored at start-up when there was no cycle before.
C30_ClearedOnNewTicker ==
  [][(/\ cycle'.n = cycle.n + 1
      /\ cycle'.ticker # cycle.ticker
      /\ (cycle.n = 0 => cycle'.ticker # last_paper_ticker)) =>
       /\ contract_settlement_prices' = <<>>
       /\ \A c \in Contracts \ {cycle'.ticker} :
            /\ c \notin free_rolled'
            /\ c \notin took_profit'
            /\ edge_exit_ts'[c] = NoTs
            /\ entry_ts'[c] = NoTs]_vars

\* ------------------------------------------------------------------------
\* SpecWeight: the blend weight of get_fair_value (alpha_engine.py) at two
\* calls that differ in seconds_remaining only
\* ------------------------------------------------------------------------

\* the weight of the consensus price in projected: current_weight inside the
\* blend, 0 where projected is the settlement average alone
BlendWeight(seconds_remaining, start_ts, t) ==
  IF seconds_remaining > 0 /\ start_ts > 0
  THEN CurrentWeight(seconds_remaining, start_ts, t)
  ELSE Zero

\* remaining seconds of a 900 s window, window starts (0 = none) and clock
\* readings of the two calls
WeightSeconds == {0, 1, 10, 100, 300, 600, 899}

WeightStarts == {0, 100}

WeightClocks == {100, 101, 200, 400, 1000}

InitWeight ==
  /\ QuietInit
  /\ config = ConfigDefaults
  /\ \E seconds_remaining \in WeightSeconds, start_ts \in WeightStarts, t \in WeightClocks :
       args = [op |-> "blend_weight", seconds_remaining |-> seconds_remaining,
               start_ts |-> start_ts, t |-> t, earlier |-> [set |-> FALSE]]

\* the call with more time remaining
CallBlendWeight ==
  /\ args.op = "blend_weight" /\ ~ret.set
  /\ ret' = [set |-> TRUE,
             current_weight |-> BlendWeight(args.seconds_remaining, args.start_ts, args.t)]
  /\ UNCHANGED <<feedVars, venueVars, kalshiVars, contractVars, config, traderVars,
                 paperVars, orderVars, taskVars, args>>

\* the call with less time remaining and the same elapsed time
CallBlendWeightLater ==
  /\ args.op = "blend_weight" /\ ret.set /\ ~args.earlier.set
  /\ \E seconds_remaining \in WeightSeconds :
       /\ seconds_remaining < args.seconds_remaining
       /\ args' = [args EXCEPT !.seconds_remaining = seconds_remaining,
                               !.earlier = [set |-> TRUE,
                                            seconds_remaining |-> args.seconds_remaining,
                                            current_weight |-> ret.current_weight]]
       /\ ret' = [set |-> TRUE,
                  current_weight |-> BlendWeight(seconds_remaining, args.start_ts, args.t)]
  /\ UNCHANGED <<feedVars, venueVars, kalshiVars, contractVars, config, traderVars,
                 paperVars, orderVars, taskVars>>

NextWeight == CallBlendWeight \/ CallBlendWeightLater

SpecWeight == InitWeight /\ [][NextWeight]_vars

Weighed == args.op = "blend_weight" /\ ret.set

\* C34: in get_fair_value, at a fixed elapsed time since the contract start,
\* the weight of the live consensus price does not decrease when
\* seconds_remaining decreases, and it never exceeds 0.85.
C34_LiveWeightGrowsTowardsExpiry ==
  Weighed =>
    /\ ~RatLess(<<85, 100>>, ret.current_weight)
    /\ args.earlier.set => ~RatLess(ret.current_weight, args.earlier.current_weight)

\* the weight is within its cap at every call
WeightCapped == Weighed => ~RatLess(<<85, 100>>, ret.current_weight)

\* what the code computes: the weight never increases when seconds_remaining
\* decreases
WeightShrinksTowardsExpiry ==
  (Weighed /\ args.earlier.set) => ~RatLess(args.earlier.current_weight, ret.current_weight)

\* ------------------------------------------------------------------------
\* SpecRun: the decision loop TradingBot.run (trader.py) under the start and
\* stop requests of the dashboard (web.py).  loops.tasks holds every task
\* that start_bot created: where its coroutine is suspended and the cycles
\* it has run.
\* ------------------------------------------------------------------------

\* run() tasks created and cycles run per task
MaxLoops == 3

MaxLoopCycles == 2

\* asyncio.create_task(bot.run()): the coroutine has not run yet
NewLoop == [pc |-> "created", cycles |-> 0]

\* POST /api/start: refused while bot.running, else a new task
start_bot ==
  /\ ~loops.running
  /\ Len(loops.tasks) < MaxLoops
  /\ loops' = [loops EXCEPT !.tasks = Append(@, NewLoop)]

\* POST /api/stop: refused unless bot.running, else bot.stop()
stop_bot ==
  /\ loops.running
  /\ loops' = [loops EXCEPT !.running = FALSE]

\* the loop test of run(): another cycle while self.running, else the finally
\* block (self.running = False) and the end of the task
LoopTest(l, i) ==
  IF l.running /\ l.tasks[i].cycles < MaxLoopCycles
  THEN [l EXCEPT !.tasks[i].pc = "cycle", !.tasks[i].cycles = @ + 1]
  ELSE IF l.running THEN [l EXCEPT !.tasks[i].pc = "sleeping"]
  ELSE [l EXCEPT !.running = FALSE, !.tasks[i].pc = "done"]

\* the task runs for the first time: self.running = True, then the loop test
RunStart(i) ==
  /\ loops.tasks[i].pc = "created"
  /\ loops' = LoopTest([loops EXCEPT !.running = TRUE], i)

\* await self._cycle() returns; the task goes to sleep POLL_INTERVAL_SECONDS
CycleReturns(i) ==
  /\ loops.tasks[i].pc = "cycle"
  /\ loops' = [loops EXCEPT !.tasks[i].pc = "sleeping"]

\* the sleep is over: the loop test
SleepReturns(i) ==
  /\ loops.tasks[i].pc = "sleeping"
  /\ loops' = LoopTest(loops, i)

RunRest ==
  UNCHANGED <<feedVars, venueVars, kalshiVars, contractVars, config, callVars, traderVars,
              paperVars, orderVars, broker, settlement>>

StartRequest == start_bot /\ RunRest

StopRequest == stop_bot /\ RunRest

LoopStep ==
  /\ \E i \in 1..Len(loops.tasks) : RunStart(i) \/ CycleReturns(i) \/ SleepReturns(i)
  /\ RunRest

InitRun ==
  /\ QuietInit
  /\ config = ConfigDefaults
  /\ args = [op |-> "none"]

NextRun == StartRequest \/ StopRequest \/ LoopStep

SpecRun == InitRun /\ [][NextRun]_vars

\* the run() tasks that are inside a cycle or asleep between two cycles
ActiveLoops == {i \in 1..Len(loops.tasks) : loops.tasks[i].pc \in {"cycle", "sleeping"}}

\* C35: at most one decision loop (TradingBot.run) is active at any time, for
\* every interleaving of start and stop requests.
C35_OneDecisionLoop == Cardinality(ActiveLoops) <= 1

\* every task that was created has run its first step
StartedLoops == \A i \in 1..Len(loops.tasks) : loops.tasks[i].pc # "created"

\* a start request that is accepted once every earlier task has started finds
\* no loop inside a cycle or asleep
StartFindsNoLoop ==
  [][(start_bot /\ StartedLoops) => ActiveLoops = {}]_vars

\* ------------------------------------------------------------------------
\* SpecBroker: the broker loop (_kalshi_loop) with the order-book
\* subscriptions of the decision cycle (subscribe_orderbook) and the
\* messages of the stream (alpha_engine.py).  broker.conn counts the
\* connections made, broker.cmds lists the order-book subscribe commands
\* sent on the current one and broker.snaps the tickers whose snapshot
\* arrived on it; broker.outlived tells that a send was still pending when
\* the next connection was made; the clock moves on by one with every connect.
\* ------------------------------------------------------------------------

\* connections made, and failures of the stream
MaxConns == 3

MaxDrops == 2

InitBroker ==
  /\ MonitorInit
  /\ env = [fails |-> MaxDrops, ticks |-> 0]
  /\ config = ConfigDefaults
  /\ args = [op |-> "none"]
  /\ ret = [set |-> FALSE]
  /\ BotInit

BrokerConnect ==
  /\ broker.conn < MaxConns
  /\ KalshiConnected(now + 1)
  /\ broker' = [broker EXCEPT !.conn = @ + 1, !.cmds = <<>>, !.snaps = {}]
  /\ UNCHANGED <<settlement, loops>>

BrokerMessage(msg) ==
  /\ KalshiDispatch(msg)
  /\ broker' = [broker EXCEPT !.snaps = IF msg.type = "orderbook_snapshot" /\ msg.ticker # ""
                                        THEN @ \cup {msg.ticker} ELSE @]
  /\ UNCHANGED <<contractVars, config, traderVars, paperVars, orderVars, callVars,
                 settlement, loops>>

\* subscribe_orderbook(ticker) up to its await: nothing to do for a ticker in
\* the set or without a connection, else ws.send is awaited on the
\* connection of the moment
SubscribeCall(ticker) ==
  /\ broker.call.pc = "idle"
  /\ ticker \notin kalshi_subscribed_ob
  /\ kalshi_ws # "None" /\ kalshi_connected
  /\ broker' = [broker EXCEPT !.call = [pc |-> "sending", ticker |-> ticker,
                                        conn |-> broker.conn]]
  /\ UNCHANGED <<feedVars, venueVars, kalshiVars, contractVars, config, traderVars,
                 paperVars, orderVars, callVars, settlement, loops>>

\* the connection the pending send was made on is still the open one; a send
\* on a connection that was lost or closed raises
SendCanSucceed ==
  /\ broker.call.conn = broker.conn
  /\ kalshi_ws # "None"
  /\ pc["kalshi"] \in {"subscribing", "streaming"}

\* ws.send returns: the command is out and the ticker is added to the set
\* that self._kalshi_subscribed_ob names at that moment
SubscribeSent ==
  /\ broker.call.pc = "sending"
  /\ SendCanSucceed
  /\ kalshi_subscribed_ob' = kalshi_subscribed_ob \cup {broker.call.ticker}
  /\ broker' = [broker EXCEPT !.cmds = IF broker.call.conn = broker.conn
                                       THEN Append(@, broker.call.ticker) ELSE @,
                              !.call = IdleBroker.call]
  /\ UNCHANGED <<feedVars, venueVars, kalshi_connected, kalshi_ws, kalshi_orderbook,
                 kalshi_ob_ts, now, contractVars, config, traderVars, paperVars,
                 orderVars, callVars, settlement, loops>>

\* ws.send raises: logged, nothing recorded
SubscribeRaised ==
  /\ broker.call.pc = "sending"
  /\ broker' = [broker EXCEPT !.call = IdleBroker.call,
                              !.outlived = @ \/ broker.call.conn # broker.conn]
  /\ UNCHANGED <<feedVars, venueVars, kalshiVars, contractVars, config, traderVars,
                 paperVars, orderVars, callVars, settlement, loops>>

NextBroker ==
  \/ Start({"kalshi"})
  \/ BrokerConnect
  \/ KalshiSubscribed
  \/ KalshiFail
  \/ SleepDone("kalshi")
  \/ CleanClose("kalshi")
  \/ \E m \in FeedMsgs : BrokerMessage(m)
  \/ \E ticker \in Tickers : SubscribeCall(ticker)
  \/ SubscribeSent
  \/ SubscribeRaised

SpecBroker == InitBroker /\ [][NextBroker]_vars

\* the tickers of the order-book commands sent on the current connection
CommandsSent == {broker.cmds[i] : i \in 1..Len(broker.cmds)}

C38_DeltasNeedFreshSnapshot ==
  [][\A t \in DOMAIN kalshi_orderbook :
       (kalshi_orderbook'[t] # kalshi_orderbook[t] \/ kalshi_ob_ts'[t] # kalshi_ob_ts[t])
         => t \in broker'.snaps]_vars

\* on the first connection the guard of the delta branch is enough
FirstConnectionDeltasNeedSnapshot ==
  [][broker.conn = 1 =>
       \A t \in DOMAIN kalshi_orderbook :
         (kalshi_orderbook'[t] # kalshi_orderbook[t] \/ kalshi_ob_ts'[t] # kalshi_ob_ts[t])
           => t \in broker'.snaps]_vars

\* ------------------------------------------------------------------------
\* Contract rollover and paper settlement (trader.py: the rollover block of
\* _cycle, _settle_paper_positions, _do_settle).  A settlement task is a
\* coroutine that asyncio.create_task scheduled; it runs between two awaits
\* of the cycle, and between two of its own awaits the cycle and the other
\* settlement tasks run.  Contract windows are numbered in the order in which
\* fetch_active_market returns them.
\* ------------------------------------------------------------------------

\* for attempt in range(7)
SettleAttempts == 7

MaxSettleCycles == 4

\* sqlite errors that record_trade may still raise inside a settlement
MaxDbErrors == 1

\* the coroutine object handed to asyncio.create_task
NewSettle(new_ticker) ==
  [pc |-> "created", new_ticker |-> new_ticker, expired |-> <<>>, k |-> 0, qty |-> 0,
   side |-> "none", attempt |-> 0, asked |-> 0, by |-> ""]

\* the keys of a dict, in the order of insertion: windows are entered in order
Ascending(S) ==
  CHOOSE q \in [1..Cardinality(S) -> S] :
    \A a, b \in 1..Cardinality(S) : a < b => q[a] < q[b]

\* the part of the state that the rollover block hands to the settlement
Books == [tasks |-> settlement.tasks, balance |-> paper_balance,
           positions |-> paper_positions]

\* the settlement awaited inside the cycle: positions settled before the
\* cycle goes on
SettleAwaited(s, ticker) ==
  [s EXCEPT !.tasks = Append(@, [NewSettle(ticker) EXCEPT !.pc = "done"]),
            !.positions = [t \in DOMAIN @ |-> IF t # ticker THEN NoPaper ELSE @[t]]]

\* asyncio.create_task(self._settle_paper_positions(ticker))
SettleDispatch(s, ticker) == [s EXCEPT !.tasks = Append(@, NewSettle(ticker))]

\* for ticker in expired_tickers: pos = self._paper_positions.get(ticker);
\* if not pos: continue; qty, side are read and the first _get is awaited.
\* After the last ticker the task ends (_save_paper_state)
NextExpired(task, held) ==
  LET later == {j \in (task.k + 1)..Len(task.expired) :
                  held[task.expired[j]].side # "none"}
      j == CHOOSE a \in later : \A b \in later : a <= b
  IN  IF later = {} THEN [task EXCEPT !.pc = "done"]
      ELSE [task EXCEPT !.pc = "query", !.k = j,
                        !.qty = held[task.expired[j]].quantity,
                        !.side = held[task.expired[j]].side,
                        !.attempt = 0, !.asked = 1, !.by = ""]

SettleRest ==
  UNCHANGED <<venueVars, kalshiVars, contractVars, config, ret, orderVars, broker, loops,
              running, pc, delay, stop_pc, failures>>

TrackingKept ==
  UNCHANGED <<paper_mode, positions, free_rolled, took_profit, edge_exit_ts, entry_ts,
              last_paper_ticker, resting, cycle, hist, args>>

\* the task runs for the first time: _settle_paper_positions up to the first
\* await of _do_settle
SettleStart(i) ==
  LET task == settlement.tasks[i]
      expired_tickers == Ascending({t \in Windows : Stored(t) /\ t # task.new_ticker})
  IN  /\ task.pc = "created"
      /\ settlement' =
           [settlement EXCEPT !.tasks[i] =
              IF expired_tickers = <<>> THEN [task EXCEPT !.pc = "done"]
              ELSE NextExpired([task EXCEPT !.expired = expired_tickers], paper_positions)]
      /\ UNCHANGED <<paperVars, env>>
      /\ TrackingKept /\ SettleRest

\* from the end of the retry loop to the next await: the payout is added to
\* the balance, record_trade writes the trade (it may raise: the exception
\* ends _do_settle and is logged by _settle_paper_positions), the position is
\* deleted (KeyError when another task deleted it) and the next ticker is read
SettlePay(i, settle_price, by) ==
  LET task == settlement.tasks[i]
      ticker == task.expired[task.k]
      payout_cents == settle_price * task.qty
      paid == [task EXCEPT !.by = by]
      credited == [settlement.credits EXCEPT
                     ![ticker] = IF payout_cents > 0 THEN @ + 1 ELSE @]
      deleted == [paper_positions EXCEPT ![ticker] = NoPaper]
  IN  /\ paper_balance' = paper_balance + payout_cents
      /\ \/ /\ env.fails > 0
            /\ env' = [env EXCEPT !.fails = @ - 1]
            /\ paper_positions' = paper_positions
            /\ settlement' = [settlement EXCEPT !.credits = credited,
                                                !.tasks[i] = [paid EXCEPT !.pc = "failed"]]
         \/ /\ env' = env
            /\ IF Stored(ticker)
               THEN /\ paper_positions' = deleted
                    /\ settlement' = [settlement EXCEPT !.credits = credited,
                                                        !.tasks[i] = NextExpired(paid, deleted)]
               ELSE /\ paper_positions' = paper_positions
                    /\ settlement' = [settlement EXCEPT !.credits = credited,
                                                        !.tasks[i] = [paid EXCEPT !.pc = "failed"]]

\* one await self._get(f"/markets/{ticker}") of the retry loop returns or
\* raises: a result ends the loop; without one the task sleeps 15 s and asks
\* again, and after the last attempt it settles by the projection (100 or 0,
\* as projected_settlement lies to the strike; 0 without a projection)
SettleQuery(i) ==
  LET task == settlement.tasks[i]
      ticker == task.expired[task.k]
      result == settlement.result[ticker]
  IN  /\ task.pc = "query"
      /\ \/ /\ result # ""
            /\ SettlePay(i, IF result = task.side THEN 100 ELSE 0, "result")
         \/ /\ task.attempt < SettleAttempts - 1
            /\ settlement' = [settlement EXCEPT !.tasks[i].attempt = @ + 1,
                                                !.tasks[i].asked = @ + 1]
            /\ UNCHANGED <<paperVars, env>>
         \/ /\ task.attempt = SettleAttempts - 1
            /\ \E settle_price \in {0, 100} : SettlePay(i, settle_price, "projection")
      /\ TrackingKept /\ SettleRest

SettleStep == \E i \in 1..Len(settlement.tasks) : SettleStart(i) \/ SettleQuery(i)

\* the broker posts the result of a market that has closed
PostResult ==
  /\ \E t \in Windows, result \in {"yes", "no"} :
       /\ t < last_paper_ticker
       /\ settlement.result[t] = ""
       /\ settlement' = [settlement EXCEPT !.result[t] = result]
  /\ UNCHANGED <<paperVars, env>>
  /\ TrackingKept /\ SettleRest

\* the order book and the orders of the cycles of these runs
SettleBook == <<[yes |-> <<<<48, 2>>, <<50, 1>>>>, no |-> <<<<45, 2>>, <<47, 1>>>>]>>

SettleOrders == {[side |-> "none", qty |-> 0], [side |-> "yes", qty |-> 1]}

\* the settlement tasks that are inside the retry loop after a first query
\* without a result
Retrying == {i \in 1..Len(settlement.tasks) :
               settlement.tasks[i].pc = "query" /\ settlement.tasks[i].attempt >= 1}

\* one _cycle() in paper mode: the active market, the rollover block, then
\* the decision on the active market, here at most one buy.  A task created
\* by the cycle before has run its first step by now (create_task schedules
\* it for the next pass of the event loop, the cycles are 10 s apart)
SettleCycle ==
  /\ cycle.n < MaxSettleCycles
  /\ \A i \in 1..Len(settlement.tasks) : settlement.tasks[i].pc # "created"
  /\ \E ticker \in {Max(1, last_paper_ticker), last_paper_ticker + 1} \cap Windows,
        order \in SettleOrders :
       LET rolled == last_paper_ticker # 0 /\ last_paper_ticker # ticker
           s == IF rolled THEN SettleDispatch(Books, ticker) ELSE Books
           r == IF order.qty = 0
                THEN [balance |-> s.balance, pos |-> s.positions[ticker],
                      status |-> "none", filled_count |-> 0]
                ELSE paper_place_order(s.balance, s.positions[ticker], SettleBook,
                                       order.side, 55, order.qty,
                                       config.PAPER_FILL_FRACTION)
       IN  /\ settlement' = [settlement EXCEPT !.tasks = s.tasks]
           /\ paper_balance' = r.balance
           /\ paper_positions' = [s.positions EXCEPT ![ticker] = r.pos]
           /\ last_paper_ticker' = ticker
           /\ free_rolled' = IF rolled THEN {} ELSE free_rolled
           /\ took_profit' = IF rolled THEN {} ELSE took_profit
           /\ edge_exit_ts' = IF rolled THEN [t \in DOMAIN edge_exit_ts |-> NoTs]
                              ELSE edge_exit_ts
           /\ entry_ts' = IF rolled THEN [t \in DOMAIN entry_ts |-> NoTs] ELSE entry_ts
           /\ cycle' = [cycle EXCEPT !.n = @ + 1, !.ticker = ticker, !.rolled = rolled,
                                     !.buys = IF r.filled_count > 0 THEN <<order>>
                                              ELSE <<>>]
           /\ args' = [op |-> "settle", retrying |-> Cardinality(Retrying)]
  /\ UNCHANGED <<paper_mode, positions, resting, hist, env>>
  /\ SettleRest

InitSettle ==
  /\ MonitorInit
  /\ env = [fails |-> MaxDbErrors, ticks |-> 0]
  /\ ret = [set |-> FALSE]
  /\ config = ConfigDefaults
  /\ args = [op |-> "settle", retrying |-> 0]
  /\ paper_mode = TRUE
  /\ paper_balance = PAPER_STARTING_BALANCE * 100
  /\ paper_positions = [t \in Windows |-> NoPaper]
  /\ BotRest(NoPosition)

NextSettle == SettleCycle \/ SettleStep \/ PostResult

SpecSettle == InitSettle /\ [][NextSettle]_vars

\* C31: on a rollover the settlement of the expiring contract is a separate
\* background task: the cycle that detects the rollover creates the task and
\* goes on to the new contract with every expired position still unsettled,
\* and no step of a settlement task touches what the cycles decide on (the
\* active ticker and its position), so that later cycles trade the new
\* contract while the settlement is still retrying.
C31_SettlementRunsInBackground ==
  [][/\ (cycle'.n = cycle.n + 1 /\ cycle'.rolled) =>
          /\ cycle'.ticker # last_paper_ticker
          /\ last_paper_ticker' = cycle'.ticker
          /\ Len(settlement'.tasks) = Len(settlement.tasks) + 1
          /\ settlement'.tasks[Len(settlement'.tasks)].pc = "created"
          /\ settlement'.credits = settlement.credits
          /\ \A t \in Windows \ {cycle'.ticker} : paper_positions'[t] = paper_positions[t]
     /\ (cycle'.n = cycle.n /\ last_paper_ticker # 0) =>
          /\ last_paper_ticker' = last_paper_ticker
          /\ paper_positions'[last_paper_ticker] = paper_positions[last_paper_ticker]]_vars

\* a cycle after the rollover bought the new contract while the settlement of
\* the old one was between two queries
C31_Witness ==
  /\ ~cycle.rolled
  /\ cycle.buys # <<>>
  /\ args.retrying >= 1
  /\ Stored(cycle.ticker)
  /\ \E i \in Retrying : Stored(settlement.tasks[i].expired[settlement.tasks[i].k])

\* the settlement tasks that have ended, by return or by an exception
SettleEnded == {i \in 1..Len(settlement.tasks) : settlement.tasks[i].pc \in {"done", "failed"}}

\* C32: the settlement of an expired position asks the broker for the result
\* at most 7 times and settles by the projection only after 7 attempts
\* without a result, and in every case the settlement ends with the expired
\* paper positions removed from the position map.
C32_SettlementRemovesPosition ==
  \A i \in 1..Len(settlement.tasks) :
    LET task == settlement.tasks[i]
    IN  /\ task.asked <= SettleAttempts
        /\ task.by = "projection" => task.asked = SettleAttempts
        /\ i \in SettleEnded => \A j \in 1..Len(task.expired) : ~Stored(task.expired[j])

\* the parts of C32 on the retry loop alone
QueriesBounded ==
  \A i \in 1..Len(settlement.tasks) :
    /\ settlement.tasks[i].asked <= SettleAttempts
    /\ settlement.tasks[i].by = "projection" => settlement.tasks[i].asked = SettleAttempts

\* a task that returned, rather than raised, has removed its positions
ReturnedRemoves ==
  \A i \in 1..Len(settlement.tasks) :
    settlement.tasks[i].pc = "done" =>
      \A j \in 1..Len(settlement.tasks[i].expired) :
        ~Stored(settlement.tasks[i].expired[j])

\* every await of a settlement task returns: _get has its timeouts, the sleep
\* its 15 seconds
SpecSettleFair == SpecSettle /\ WF_vars(SettleStep)

SettlementTerminates ==
  \A i \in Windows :
    [](Len(settlement.tasks) >= i => <>(i \in SettleEnded))

\* C36: the payout of an expired paper position is credited to the paper
\* balance at most once, whatever the interleaving of settlement tasks,
\* cycles and further rollovers, and on every error path of the settlement.
C36_PayoutCreditedOnce == \A t \in Windows : settlement.credits[t] <= 1

C39_OneOpenOrder ==
  ~paper_mode =>
    /\ \A i \in 1..Len(entry.orders) : entry.orders[i].retry => entry.orders[i].others = 0
    /\ ~(entry.open > 0 /\ entry.stray > 0)

\* ------------------------------------------------------------------------
\* A sized entry: the exposure guard, the sizing and the position guard of
\* _cycle, place_order and _wait_and_retry (trader.py).  args keeps what the
\* cycle computed: the balance it fetched, the position it found in the
\* contract, max_position and the quantity it ordered.
\* ------------------------------------------------------------------------

\* balances in cents fetched by the cycle
EntryBalances == {200, 400, 1000}

\* the position the cycle finds in the contract: current_qty YES contracts
\* bought at 50 cents
HeldPaper(current_qty) ==
  IF current_qty = 0 THEN NoPaper
  ELSE [side |-> "yes", quantity |-> current_qty, avg_price_cents |-> Whole(50),
        market_exposure_cents |-> Whole(50 * current_qty)]

InitEntry ==
  /\ MonitorInit
  /\ env = [fails |-> 0, ticks |-> 0]
  /\ ret = [set |-> FALSE]
  /\ config = ConfigDefaults @@ SizingDefaults
                @@ [TraderDefaults EXCEPT !.TRADING_ENABLED = TRUE]
  /\ paper_mode \in BOOLEAN
  /\ \E balance \in EntryBalances, current_qty \in 0..MaxHeld :
       /\ args = [op |-> "sized", balance |-> balance, current_qty |-> current_qty,
                  max_position |-> 0, qty |-> 0]
       /\ paper_balance = IF paper_mode THEN balance ELSE PAPER_STARTING_BALANCE * 100
       /\ paper_positions = [t \in Contracts |->
                               IF paper_mode /\ t = EntryTicker THEN HeldPaper(current_qty)
                               ELSE NoPaper]
  /\ BotRest(NoPosition)

\* _cycle from the entry pricing to the call of _wait_and_retry, with the
\* quantity of the sizing block
SizedEntry ==
  /\ args.op = "sized"
  /\ entry.pc = "idle"
  /\ \E side \in {"yes", "no"}, aggressive \in BOOLEAN, book \in ChaseBooks :
       LET q == spread_guard(book)
           price_cents == EntryPrice(side, q, aggressive)
           qty == EntrySize(args.balance, 50 * args.current_qty, price_cents,
                            args.current_qty)
           e == [entry EXCEPT !.side = side, !.aggressive = aggressive, !.qty = qty,
                              !.book = book]
       IN  /\ q.ok
           /\ args.current_qty > 0 => side = "yes"
           /\ IF PriceGuard(side, price_cents)
              THEN /\ entry' = Ended(e, "price_guard")
                   /\ UNCHANGED <<paperVars, args>>
              ELSE /\ args' = [args EXCEPT
                                 !.max_position = Contracts_for(args.balance,
                                                    config.MAX_POSITION_PCT, price_cents),
                                 !.qty = qty]
                   /\ IF qty = 0 THEN entry' = Ended(e, "guard") /\ UNCHANGED paperVars
                      ELSE IF paper_mode THEN PlacePaper(e, price_cents, q)
                      ELSE PlaceLive(e, price_cents, q)
  /\ UNCHANGED <<feedVars, venueVars, kalshiVars, contractVars, config, ret,
                 traderVars, request, taskVars>>

NextEntry == SizedEntry \/ ChaseAttempt \/ BrokerFill

SpecEntry == InitEntry /\ [][NextEntry]_vars

\* abs(position) in the contract: the paper position, or what the exchange
\* holds after the fills of the entry's orders
PositionNow ==
  IF paper_mode THEN paper_positions[EntryTicker].quantity
  ELSE args.current_qty + entry.filled

\* C40: after an entry, the initial order and its chase retries, the position
\* in the contract is at most the max_position of that cycle,
\* max(1, floor(balance * MAX_POSITION_PCT% / price)), and no order is
\* placed when the position has already reached it.
C40_PositionWithinMax ==
  entry.orders # <<>> =>
    /\ args.current_qty < args.max_position
    /\ PositionNow <= args.max_position

\* the same in paper mode alone
PaperPositionWithinMax == paper_mode => C40_PositionWithinMax

\* and in live mode while every retry found nothing left of the order before
LivePositionWithinMax ==
  (~paper_mode /\ entry.filled <= entry.qty) => C40_PositionWithinMax

====
